---- MODULE Spec2Model ----
(***************************************************************************)
(* Billing state machine and notification dispatcher of wi-api.            *)
(*                                                                         *)
(* Money is kept in integer cents.  An optional value (Python None) is a   *)
(* sequence of length 0, a present value v is <<v>>.                       *)
(*                                                                         *)
(* The module holds several specifications over disjoint groups of         *)
(* variables; in each of them the other groups stay at their initial       *)
(* value:                                                                  *)
(*   Spec          billing API: create_sale, update_sale_status,           *)
(*                 issue_promissory, cancel_promissory, pay_installment    *)
(*   CreateSpec    one POST /sales request as a function of its payload    *)
(*   AmortSpec     create_sale's installment schedule as a function of     *)
(*                 the principal and the installment count                 *)
(*   BackoffSpec   compute_backoff_seconds as a function of tries          *)
(*   DispatchSpec  process_finance run by two worker replicas              *)
(*   SoloSpec      process_finance run by a single worker                  *)
(*   OffersSpec    the hourly product offer of run_loop                    *)
(*   WeeklySpec    process_weekly_report_text                              *)
(*   RunLoopSpec   the task sequence of one run_loop iteration             *)
(*   MonthlySpec   process_monthly_report_pdf                              *)
(*   StateFileSpec a label file across a process kill inside its write     *)
(*   StartupSpec   run_loop's startup checks and the token read by _cfg    *)
(*   ReportsSpec   the weekly and the monthly report task                  *)
(*   ReminderSpec  the four dispatch tasks on one row over days            *)
(*   TxnSpec       pay and cancel requests in concurrent transactions      *)
(*   AlertSpec     sales being confirmed and runs of the confirmed-sale alert task*)
(*   BatchSpec     runs of one dispatch task over rows sorted after skipped rows*)
(***************************************************************************)
EXTENDS Integers, Sequences, FiniteSets, TLC

VARIABLES
    \* ---- billing store (sales_service.py) ----
    products,     \* product id -> ProductStatus
    sales,        \* sale id -> Sale row ("NONE" = no such row); of the columns, those an operation reads
    proms,        \* promissory id -> Promissory row (id = its sale's id)
    insts,        \* promissory id -> sequence of Installment rows (number 1..N)
    clk,          \* datetime.utcnow() seen by the billing API
    ret,          \* the last billing call and how it ended
    \* ---- one POST /sales request on a store without sales (CreateSpec) ----
    crReq,        \* the request, the product's status before it, and whether it was made
    \* ---- create_sale's schedule as a function (AmortSpec) ----
    amIn,         \* [P, N]: principal in cents and installment count
    amOut,        \* <<>> before the call, <<amounts>> after it
    \* ---- compute_backoff_seconds as a function (BackoffSpec) ----
    boIn,         \* tries
    boOut,        \* <<>> before the call, <<seconds>> after it
    \* ---- dispatcher (worker.py process_finance) ----
    fin,          \* finance id -> committed Send-State columns of the row
    now,          \* now_utc() in seconds
    wpc,          \* worker -> "idle" | "loop" | "claimed" | "aborted" | "down"
    wrows,        \* worker -> the rows its select returned (ids, in order)
    widx,         \* worker -> position in wrows
    wsnap,        \* worker -> id -> the row as its session holds it
    attempts,     \* finance id -> number of external send calls made for it
    lastFail,     \* <<>> or <<[id, k, at]>>: the last failure recorded
    \* ---- hourly offers (worker.py) ----
    offState,     \* offers_hourly_state.json: <<>> (missing) or <<[date, last_hour_sent, sent_product_ids]>>
    offClock,     \* datetime.now(): [day, hour]
    offGroups,    \* number of group ids parse_group_ids returned (at least 1)
    offTick,      \* number of run_loop ticks so far
    delivered,    \* set of [tick, day, hour, pid]: tick sent product pid to at least one group
    \* ---- weekly report (worker.py) ----
    wkFile,       \* weekly_report_sent.txt: <<>> (missing/empty) or <<label>>
    wkClock,      \* datetime.now(): [day, hour, minute], day 0 is a Monday
    wkSends,      \* sequence of [label, day]: reports accepted by the provider
    wkLast,       \* <<>> or <<[due, label, skipped, ok]>>: what the last tick saw
    \* ---- run_loop (worker.py) ----
    rlTask,       \* position in the tick: the task run next, 1..8, or 9 when all were run
    rlLog,        \* the tasks attempted in this tick, in order, each with whether it raised
    rlTicks,      \* ticks completed
    rlAlive,      \* the while loop is still running
    \* ---- monthly report (worker.py) ----
    mnFile,       \* monthly_report_sent.txt: <<>> (missing/empty) or <<label>>
    mnClock,      \* datetime.now(): [year, month, day, hour, minute]
    mnDays,       \* days the clock has moved on since the start
    mnSends,      \* sequence of [label, at]: reports accepted by the provider
    \* ---- state files (worker.py) ----
    sfFile,       \* text of the label file ("" = <<>>)
    sfPc,         \* "idle" | "writing" (inside write_text) | "down"
    sfPeriod,     \* the current report period
    sfSends,      \* labels of the reports accepted by the provider
    sfKills,      \* process kills so far
    \* ---- startup (worker.py, uazapi.py) ----
    cfEnv,        \* which configuration variables are set
    cfPc,         \* "start" | "fatal" (RuntimeError) | "loop"
    cfRows,       \* finance rows as stored
    cfNow,        \* utcnow() in seconds
    \* ---- reminders (worker.py: the four dispatch tasks on one row) ----
    rmKind,       \* "finance" | "installment": the row the store holds
    rmRow,        \* column name -> stored value
    rmProm,       \* status of the installment's promissory ("NONE" for a finance row)
    rmNow,        \* now_utc() in seconds; the local date is rmNow \div DaySeconds
    rmPc,         \* <<>> (between tasks) or <<ch>>: channel ch is claimed, the send is under way
    rmSnap,       \* <<>> or <<row>>: the row as the worker's session holds it
    rmLast,       \* <<>> or <<[op, ch]>>: the last step taken
    \* ---- concurrent billing requests (sales_service.py, db.py) ----
    txDb,         \* the committed statuses: promissory, sale, installments
    txReq,        \* transaction -> its request
    txPc,         \* transaction -> "start" | "loaded" | "flushed" | "checked" | "ready" | "done" | "failed"
    txProm,       \* transaction -> the promissory status its session loaded
    txInsts,      \* transaction -> the installment statuses its session loaded
    txWrites,     \* transaction -> its flushed, uncommitted writes
    \* ---- confirmed-sale alerts (worker.py) ----
    alSales,      \* sale id -> "DRAFT" | "CONFIRMED"
    alMax,        \* max_id of the state file
    alSent,       \* sale ids whose alert was accepted
    alTried,      \* sale ids a run has selected
    \* ---- batch limit of the dispatch tasks (worker.py) ----
    bkCat,        \* the task: "finance" | "due_soon" | "due_today" | "overdue"
    bkSkipped,    \* number of earlier-sorted rows the select returns and the loop skips
    bkRows,       \* row -> its channel status and whether its client has a usable phone
    bkTicks,      \* runs of the task so far
    bkLast        \* the rows the last run claimed

billingVars  == <<products, sales, proms, insts, clk, ret>>
createVars   == <<crReq>>
amortVars    == <<amIn, amOut>>
backoffVars  == <<boIn, boOut>>
dispatchVars == <<fin, now, wpc, wrows, widx, wsnap, attempts, lastFail>>
offersVars   == <<offState, offClock, offGroups, offTick, delivered>>
weeklyVars   == <<wkFile, wkClock, wkSends, wkLast>>
runloopVars  == <<rlTask, rlLog, rlTicks, rlAlive>>
baseVars == <<billingVars, createVars, amortVars, backoffVars, dispatchVars, offersVars, weeklyVars>>
monthlyVars  == <<mnFile, mnClock, mnDays, mnSends>>
stateFileVars == <<sfFile, sfPc, sfPeriod, sfSends, sfKills>>
startupVars == <<cfEnv, cfPc, cfRows, cfNow>>
reminderVars == <<rmKind, rmRow, rmProm, rmNow, rmPc, rmSnap, rmLast>>
txnVars == <<txDb, txReq, txPc, txProm, txInsts, txWrites>>
alertVars == <<alSales, alMax, alSent, alTried>>
batchVars == <<bkCat, bkSkipped, bkRows, bkTicks, bkLast>>
schedVars == <<runloopVars, monthlyVars, stateFileVars, startupVars, reminderVars, txnVars, alertVars, batchVars>>
vars == <<billingVars, createVars, amortVars, backoffVars, dispatchVars, offersVars, weeklyVars, schedVars>>

None == <<>>
Some(v) == <<v>>
IsNone(o) == o = <<>>
Val(o) == o[1]
Opt(S) == {None} \cup {Some(v) : v \in S}

RECURSIVE SumSeq(_)
SumSeq(s) == IF s = <<>> THEN 0 ELSE Head(s) + SumSeq(Tail(s))

(***************************************************************************)
(* Bounds of the model                                                     *)
(***************************************************************************)
MaxSales == 1          \* sales (and products) the billing store may hold
MaxN == 3              \* installment counts tried by the billing API model
MaxTotal == 2          \* sale totals, entries, adjusted principals: 0..MaxTotal cents
MaxClock == 2          \* utcnow() values seen by the billing API
MaxPrincipal == 45     \* principals of AmortSpec, in cents

\* SaleCreate.installments_count: Field(ge=1, le=60)
MaxInstallments == 60

SaleIds == 1..MaxSales
ProductIds == 1..MaxSales

(***************************************************************************)
(* Money                                                                   *)
(***************************************************************************)
\* Decimal division followed by _quantize_money: v.quantize(Decimal("0.01"))
\* with no rounding argument rounds with the context's default,
\* ROUND_HALF_EVEN.  p cents divided by n, rounded to whole cents.
QuantizeDiv(p, n) ==
    LET q == p \div n
        r == p % n
    IN  IF 2 * r < n THEN q
        ELSE IF 2 * r > n THEN q + 1
        ELSE IF q % 2 = 0 THEN q ELSE q + 1

\* mutant: the rounding remainder is dropped instead of added to the last installment
InstallmentAmountsNoRemainder(p, n) == [k \in 1..n |-> QuantizeDiv(p, n)]

\* create_sale, lines 200-218: the amounts of installments 1..n on principal p
InstallmentAmounts(p, n) ==
    LET per == QuantizeDiv(p, n)
        total_calc == per * n
        diff == p - total_calc
    IN  [k \in 1..n |-> IF k = n /\ diff # 0 THEN per + diff ELSE per]

(***************************************************************************)
(* Billing store rows                                                      *)
(***************************************************************************)
NoSale == [status |-> "NONE", ptype |-> "NONE", product |-> 0]
NoProm == [status |-> "NONE", total |-> 0, entry |-> 0, sale |-> 0, issued_at |-> None]

NewInstallment(amount) ==
    [amount |-> amount, status |-> "PENDING", paid_at |-> None, paid_amount |-> None]

\* the id the store gives the next sale (and its promissory)
NextSaleId == Cardinality({s \in SaleIds : sales[s].status # "NONE"}) + 1

\* what a call left behind: its name, the id it was given, how it ended, the
\* row it returned and (pay_installment) the installment status it found
Ret(op, id, res, out) == [op |-> op, id |-> id, res |-> res, out |-> out, prior |-> ""]

BillingInit ==
    /\ products = [p \in ProductIds |-> "IN_STOCK"]
    /\ sales = [s \in SaleIds |-> NoSale]
    /\ proms = [s \in SaleIds |-> NoProm]
    /\ insts = [s \in SaleIds |-> <<>>]
    /\ clk = 1
    /\ ret = [op |-> "none", id |-> <<>>, res |-> "ok", out |-> None, prior |-> ""]

\* datetime.utcnow() moves on between calls
AdvanceClock ==
    /\ clk < MaxClock
    /\ clk' = clk + 1
    /\ UNCHANGED <<products, sales, proms, insts, ret>>

(***************************************************************************)
(* create_sale behind POST /sales: the endpoint commits when the service   *)
(* returns and rolls everything back when it raises ValueError.            *)
(***************************************************************************)
\* SaleCreate: the bounds pydantic checks before the endpoint is entered
SaleCreateInvalid(total, discount, entry, count, promissory_total) ==
    \/ total <= 0
    \/ discount < 0
    \/ ~IsNone(entry) /\ Val(entry) < 0
    \/ ~IsNone(count) /\ (Val(count) < 1 \/ Val(count) > MaxInstallments)
    \/ ~IsNone(promissory_total) /\ Val(promissory_total) < 0

\* the checks of create_sale made before anything is added to the session,
\* lines 94-129: the first that raises, "" when none does
CreateSaleEarlyError(prod_status, refs_ok, total, discount, entry, promissory_total) ==
    LET entryv == IF IsNone(entry) THEN 0 ELSE Val(entry)
    IN  IF ~refs_ok THEN "invalid_argument"
        ELSE IF prod_status \notin {"IN_STOCK", "RESERVED"} THEN "invalid_argument"
        ELSE IF total <= 0 THEN "invalid_argument"
        ELSE IF discount < 0 THEN "invalid_argument"
        ELSE IF ~IsNone(entry) /\ Val(entry) < 0 THEN "invalid_argument"
        ELSE IF entryv > total THEN "invalid_argument"
        ELSE IF ~IsNone(promissory_total) /\ Val(promissory_total) < 0 THEN "invalid_argument"
        ELSE ""

\* the principal of the promissory, lines 171-175; the discount is an
\* argument of create_sale that these lines do not read
PromPrincipal(total, discount, entry, promissory_total) ==
    LET entryv == IF IsNone(entry) THEN 0 ELSE Val(entry)
        remaining_base == total - entryv
    IN  IF IsNone(promissory_total) THEN remaining_base ELSE Val(promissory_total)

\* the checks of the PROMISSORY branch, lines 167-178, made after db.add(sale)
\* and product.status = SOLD
CreateSaleLateError(total, discount, entry, ptype, count, promissory_total) ==
    IF ptype = "PROMISSORY" /\ (IsNone(count) \/ Val(count) < 1) THEN "invalid_argument"
    ELSE IF ptype = "PROMISSORY" /\ PromPrincipal(total, discount, entry, promissory_total) < 0
    THEN "invalid_argument"
    ELSE ""

\* how a POST /sales request ends: "" when the sale is created
CreateSaleError(prod_status, refs_ok, total, discount, entry, ptype, count, promissory_total) ==
    LET early == CreateSaleEarlyError(prod_status, refs_ok, total, discount, entry,
                                      promissory_total)
    IN  IF SaleCreateInvalid(total, discount, entry, count, promissory_total)
        THEN "invalid_argument"
        ELSE IF early # "" THEN early
        ELSE CreateSaleLateError(total, discount, entry, ptype, count, promissory_total)

\* the rows the session holds when create_sale returns or raises
CreateSaleSession(p, refs_ok, total, discount, entry, ptype, count, promissory_total) ==
    LET id == NextSaleId
        entryv == IF IsNone(entry) THEN 0 ELSE Val(entry)
        principal == PromPrincipal(total, discount, entry, promissory_total)
        stored == [sales |-> sales, products |-> products, proms |-> proms, insts |-> insts]
        added == [stored EXCEPT
                     !.sales = [sales EXCEPT ![id] =
                                   [status |-> "DRAFT", ptype |-> ptype, product |-> p]],
                     !.products = [products EXCEPT ![p] = "SOLD"]]
    IN  IF CreateSaleEarlyError(products[p], refs_ok, total, discount, entry,
                                promissory_total) # ""
        THEN stored
        ELSE IF ptype # "PROMISSORY"
                \/ CreateSaleLateError(total, discount, entry, ptype, count,
                                       promissory_total) # ""
        THEN added
        ELSE [added EXCEPT
                 !.proms = [proms EXCEPT ![id] =
                               [status |-> "DRAFT", total |-> principal, entry |-> entryv,
                                sale |-> id, issued_at |-> None]],
                 !.insts = [insts EXCEPT ![id] =
                               [k \in 1..Val(count) |->
                                   NewInstallment(InstallmentAmounts(principal, Val(count))[k])]]]

\* mutant: the session is committed although create_sale raised
EndpointCommitsAlways(err) == TRUE

\* create_sale_endpoint: db.commit() after create_sale returned, db.rollback()
\* in both except branches
EndpointCommits(err) == err = ""

CreateSale(p, refs_ok, total, discount, entry, ptype, count, promissory_total) ==
    LET err == CreateSaleError(products[p], refs_ok, total, discount, entry, ptype,
                               count, promissory_total)
        id == NextSaleId
        session == CreateSaleSession(p, refs_ok, total, discount, entry, ptype, count,
                                     promissory_total)
    IN  /\ id \in SaleIds
        /\ UNCHANGED clk
        /\ ret' = IF err # "" THEN Ret("create_sale", <<>>, err, None)
                  ELSE Ret("create_sale", <<id>>, "ok", None)
        /\ IF SaleCreateInvalid(total, discount, entry, count, promissory_total)
           THEN UNCHANGED <<products, sales, proms, insts>>
           ELSE IF EndpointCommits(err)
           THEN /\ sales' = session.sales
                /\ products' = session.products
                /\ proms' = session.proms
                /\ insts' = session.insts
           ELSE UNCHANGED <<products, sales, proms, insts>>

(***************************************************************************)
(* update_sale_status                                                      *)
(***************************************************************************)
\* mutant: a CONFIRMED sale may still be canceled
AllowedTransitionsReopen(current) ==
    CASE current = "DRAFT" -> {"CONFIRMED", "CANCELED"}
      [] current = "CONFIRMED" -> {"CANCELED"}
      [] OTHER -> {}

\* mutant: CANCELED is missing from the set allowed after DRAFT
AllowedTransitionsNoCancel(current) ==
    IF current = "DRAFT" THEN {"CONFIRMED"} ELSE {}

\* ALLOWED_TRANSITIONS
AllowedTransitions(current) ==
    IF current = "DRAFT" THEN {"CONFIRMED", "CANCELED"} ELSE {}

UpdateRet(s, new_status, res) ==
    [Ret("update_sale_status", <<s, new_status>>, res, None) EXCEPT !.prior = sales[s].status]

UpdateSaleStatus(s, new_status) ==
    /\ UNCHANGED <<products, proms, insts, clk>>
    /\ IF sales[s].status = "NONE"
       THEN /\ ret' = UpdateRet(s, new_status, "not_found")
            /\ UNCHANGED sales
       ELSE IF sales[s].status = new_status
       THEN /\ ret' = UpdateRet(s, new_status, "ok")
            /\ UNCHANGED sales
       ELSE IF new_status \notin AllowedTransitions(sales[s].status)
       THEN /\ ret' = UpdateRet(s, new_status, "invalid_transition")
            /\ UNCHANGED sales
       ELSE /\ sales' = [sales EXCEPT ![s].status = new_status]
            /\ ret' = UpdateRet(s, new_status, "ok")

(***************************************************************************)
(* issue_promissory                                                        *)
(***************************************************************************)
IssuePromissory(p) ==
    /\ UNCHANGED <<products, sales, insts, clk>>
    /\ IF proms[p].status = "NONE"
       THEN /\ ret' = Ret("issue_promissory", <<p>>, "not_found", None)
            /\ UNCHANGED proms
       ELSE IF proms[p].status = "CANCELED"
       THEN /\ ret' = Ret("issue_promissory", <<p>>, "conflict", None)
            /\ UNCHANGED proms
       ELSE IF proms[p].status \in {"ISSUED", "PAID"}
       THEN /\ ret' = Ret("issue_promissory", <<p>>, "ok", None)
            /\ UNCHANGED proms
       ELSE /\ proms' = [proms EXCEPT ![p].status = "ISSUED", ![p].issued_at = Some(clk)]
            /\ ret' = Ret("issue_promissory", <<p>>, "ok", None)

(***************************************************************************)
(* cancel_promissory behind PATCH /promissories/{id}/cancel                *)
(***************************************************************************)
\* PROM_ALLOWED_TRANSITIONS
PromAllowedTransitions(current) ==
    CASE current = "DRAFT" -> {"CANCELED", "ISSUED"}
      [] current = "ISSUED" -> {"CANCELED", "PAID"}
      [] OTHER -> {}

\* mutant: the PAID check of cancel_promissory is skipped
HasPaidNever(p) == FALSE

\* has_paid = any(i.status == PAID for i in prom.installments)
HasPaid(p) == \E k \in DOMAIN insts[p] : insts[p][k].status = "PAID"

\* mutant: the installments are left as they were
CancelCascadeNone(rows) == rows

\* the cascade of cancel_promissory, lines 315-317
CancelCascade(rows) ==
    [k \in DOMAIN rows |->
        IF rows[k].status = "PENDING" THEN [rows[k] EXCEPT !.status = "CANCELED"]
        ELSE rows[k]]

CancelPromissory(p) ==
    /\ UNCHANGED <<products, sales, clk>>
    /\ IF proms[p].status = "NONE"
       THEN /\ ret' = Ret("cancel_promissory", <<p>>, "not_found", None)
            /\ UNCHANGED <<proms, insts>>
       ELSE IF proms[p].status = "CANCELED"
       THEN /\ ret' = Ret("cancel_promissory", <<p>>, "ok", None)
            /\ UNCHANGED <<proms, insts>>
       ELSE IF proms[p].status = "PAID"
       THEN /\ ret' = Ret("cancel_promissory", <<p>>, "conflict", None)
            /\ UNCHANGED <<proms, insts>>
       ELSE IF HasPaid(p)
       THEN /\ ret' = Ret("cancel_promissory", <<p>>, "conflict", None)
            /\ UNCHANGED <<proms, insts>>
       ELSE IF "CANCELED" \notin PromAllowedTransitions(proms[p].status)
       THEN /\ ret' = Ret("cancel_promissory", <<p>>, "invalid_transition", None)
            /\ UNCHANGED <<proms, insts>>
       ELSE /\ proms' = [proms EXCEPT ![p].status = "CANCELED"]
            /\ insts' = [insts EXCEPT ![p] = CancelCascade(insts[p])]
            /\ ret' = Ret("cancel_promissory", <<p>>, "ok", None)

(***************************************************************************)
(* pay_installment behind POST /installments/{id}/pay                      *)
(***************************************************************************)
\* mutant: any() in place of all()
AnyPaid(rows) == \E k \in DOMAIN rows : rows[k].status = "PAID"

\* all(i.status == PAID for i in prom.installments)
AllPaid(rows) == \A k \in DOMAIN rows : rows[k].status = "PAID"

\* mutant: the cascade confirms the sale whatever its status
SaleAfterPayAlwaysConfirmed(status) == "CONFIRMED"

\* the status of the promissory's sale after the cascade, lines 358-361
SaleAfterPay(status) == IF status # "CANCELED" THEN "CONFIRMED" ELSE status

\* mutant: the two CANCELED checks are missing
PayGuardNoCancelCheck(prom_status, inst_status) ==
    IF inst_status = "PAID" THEN "return" ELSE "apply"

\* mutant: a PAID installment is paid again
PayGuardRepay(prom_status, inst_status) ==
    IF prom_status = "CANCELED" \/ inst_status = "CANCELED" THEN "conflict" ELSE "apply"

\* the checks of lines 333-340 on the promissory's and the installment's status
PayGuard(prom_status, inst_status) ==
    IF prom_status = "CANCELED" THEN "conflict"
    ELSE IF inst_status = "CANCELED" THEN "conflict"
    ELSE IF inst_status = "PAID" THEN "return"
    ELSE "apply"

PayRet(p, k, res, out) == [Ret("pay_installment", <<p, k>>, res, out) EXCEPT
                              !.prior = insts[p][k].status]

PayInstallment(p, k, paid_amount) ==
    /\ UNCHANGED <<products, clk>>
    /\ IF k \notin DOMAIN insts[p]
       THEN /\ ret' = Ret("pay_installment", <<p, k>>, "not_found", None)
            /\ UNCHANGED <<sales, proms, insts>>
       ELSE IF PayGuard(proms[p].status, insts[p][k].status) = "conflict"
       THEN /\ ret' = PayRet(p, k, "conflict", None)
            /\ UNCHANGED <<sales, proms, insts>>
       ELSE IF PayGuard(proms[p].status, insts[p][k].status) = "return"
       THEN /\ ret' = PayRet(p, k, "ok", Some(insts[p][k]))
            /\ UNCHANGED <<sales, proms, insts>>
       ELSE LET amount_to_pay == IF IsNone(paid_amount) THEN insts[p][k].amount
                                 ELSE Val(paid_amount)
                row == [insts[p][k] EXCEPT !.status = "PAID", !.paid_at = Some(clk),
                                           !.paid_amount = Some(amount_to_pay)]
                rows == [insts[p] EXCEPT ![k] = row]
                s == proms[p].sale
            IN  IF amount_to_pay < 0
                THEN /\ ret' = PayRet(p, k, "invalid_argument", None)
                     /\ UNCHANGED <<sales, proms, insts>>
                ELSE /\ insts' = [insts EXCEPT ![p] = rows]
                     /\ ret' = PayRet(p, k, "ok", Some(row))
                     /\ IF AllPaid(rows)
                        THEN /\ proms' = [proms EXCEPT ![p].status = "PAID"]
                             /\ IF s \in SaleIds
                                THEN sales' = [sales EXCEPT
                                         ![s].status = SaleAfterPay(sales[s].status)]
                                ELSE UNCHANGED sales
                        ELSE UNCHANGED <<sales, proms>>

(***************************************************************************)
(* The billing API as a state machine                                      *)
(***************************************************************************)
Amounts == -1..MaxTotal
\* explicit paid amounts: a negative one, and one no schedule of the model holds
PaidAmounts == {-1, MaxTotal + 1}
PaymentTypes == {"CASH", "PROMISSORY"}
SaleStatuses == {"DRAFT", "CONFIRMED", "CANCELED"}

BillingNext ==
    \/ AdvanceClock
    \/ /\ NextSaleId \in SaleIds
       /\ \E p \in ProductIds, refs_ok \in BOOLEAN, total \in 0..MaxTotal,
             discount \in -1..0, entry \in Opt(Amounts), ptype \in PaymentTypes,
             count \in Opt(0..MaxN), promissory_total \in Opt(Amounts) :
               CreateSale(p, refs_ok, total, discount, entry, ptype, count, promissory_total)
    \/ \E s \in SaleIds, new_status \in SaleStatuses : UpdateSaleStatus(s, new_status)
    \/ \E p \in SaleIds : IssuePromissory(p)
    \/ \E p \in SaleIds : CancelPromissory(p)
    \/ \E p \in SaleIds, k \in 1..MaxN, paid_amount \in Opt(PaidAmounts) :
            PayInstallment(p, k, paid_amount)

(***************************************************************************)
(* One POST /sales request as a function of its payload and of the status  *)
(* of the product it names, on a store that holds no sale yet              *)
(***************************************************************************)
ProductStatuses == {"IN_STOCK", "RESERVED", "SOLD"}

CreateRequests ==
    [prod : ProductStatuses, refs_ok : BOOLEAN, total : 0..MaxTotal, discount : -1..1,
     entry : Opt(Amounts), ptype : PaymentTypes, count : Opt(0..MaxN),
     promissory_total : Opt(Amounts), done : {FALSE}]

CreateIdle ==
    crReq = [prod |-> "IN_STOCK", refs_ok |-> TRUE, total |-> 0, discount |-> 0,
             entry |-> None, ptype |-> "CASH", count |-> None,
             promissory_total |-> None, done |-> FALSE]

CreateInit ==
    /\ crReq \in CreateRequests
    /\ products = [p \in ProductIds |-> crReq.prod]
    /\ sales = [s \in SaleIds |-> NoSale]
    /\ proms = [s \in SaleIds |-> NoProm]
    /\ insts = [s \in SaleIds |-> <<>>]
    /\ clk = 1
    /\ ret = [op |-> "none", id |-> <<>>, res |-> "ok", out |-> None, prior |-> ""]

\* the request is made
CreateCall ==
    /\ ~crReq.done
    /\ crReq' = [crReq EXCEPT !.done = TRUE]
    /\ CreateSale(1, crReq.refs_ok, crReq.total, crReq.discount, crReq.entry, crReq.ptype,
                  crReq.count, crReq.promissory_total)

(***************************************************************************)
(* create_sale's schedule as a function of (principal, count)              *)
(***************************************************************************)
AmortInit ==
    /\ amIn \in [P : 0..MaxPrincipal, N : 1..MaxInstallments]
    /\ amOut = None

AmortIdle ==
    /\ amIn = [P |-> 0, N |-> 1]
    /\ amOut = None

\* create_sale with an installment plan on principal amIn.P, amIn.N installments
AmortCreate ==
    /\ amOut = None
    /\ amOut' = Some(InstallmentAmounts(amIn.P, amIn.N))
    /\ UNCHANGED amIn

(***************************************************************************)
(* Send-State backoff (worker.py)                                          *)
(***************************************************************************)
MaxTries == 8          \* tries values given to compute_backoff_seconds: -1..MaxTries

\* mutant: two rows of the table are swapped
compute_backoff_swapped(tries) ==
    IF tries <= 0 THEN 60
    ELSE IF tries = 1 THEN 5 * 60
    ELSE IF tries = 2 THEN 60 * 60
    ELSE IF tries = 3 THEN 15 * 60
    ELSE 6 * 60 * 60

\* compute_backoff_seconds
compute_backoff_seconds(tries) ==
    IF tries <= 0 THEN 60
    ELSE IF tries = 1 THEN 5 * 60
    ELSE IF tries = 2 THEN 15 * 60
    ELSE IF tries = 3 THEN 60 * 60
    ELSE 6 * 60 * 60

BackoffInit ==
    /\ boIn \in [t1 : -1..MaxTries, t2 : -1..MaxTries]
    /\ boOut = None

BackoffIdle ==
    /\ boIn = [t1 |-> 0, t2 |-> 0]
    /\ boOut = None

\* the delays of two tries counters, side by side
BackoffCall ==
    /\ boOut = None
    /\ boOut' = Some([d1 |-> compute_backoff_seconds(boIn.t1),
                      d2 |-> compute_backoff_seconds(boIn.t2)])
    /\ UNCHANGED boIn

(***************************************************************************)
(* Dispatch Engine: process_finance, run by two worker processes that      *)
(* share the billing store.  Each worker's session (expire_on_commit =     *)
(* False) keeps the rows as its select loaded them; a row is reloaded only *)
(* by the db.refresh(row) of _commit_row.  A flush writes only the columns *)
(* whose value differs from the one the session loaded.                    *)
(***************************************************************************)
MaxFin == 2            \* finance rows (all PENDING and due)
MaxFailures == 2       \* failures recorded per row before the provider recovers
MaxNow == 300          \* now_utc() stays within 0..MaxNow seconds

Workers == {"A", "B"}
FinIds == 1..MaxFin
SendColumns == {"wpp_status", "wpp_tries", "wpp_last_error", "wpp_sent_at", "wpp_next_retry_at"}

\* FinanceORM(...) in create_finance
NewFinance ==
    [wpp_status |-> "PENDING", wpp_tries |-> 0, wpp_last_error |-> None,
     wpp_sent_at |-> None, wpp_next_retry_at |-> None]

\* mutant: a row left in SENDING is taken up again
can_try_sending(status, next_retry_at, t) ==
    IF status = "SENT" THEN FALSE
    ELSE IF IsNone(next_retry_at) THEN TRUE
    ELSE Val(next_retry_at) <= t

\* can_try
can_try(status, next_retry_at, t) ==
    IF status \in {"SENT", "SENDING"} THEN FALSE
    ELSE IF IsNone(next_retry_at) THEN TRUE
    ELSE Val(next_retry_at) <= t

\* mutant: the select does not look at wpp_status
SelectedAnyStatus(row, t) ==
    IsNone(row.wpp_next_retry_at) \/ Val(row.wpp_next_retry_at) <= t

\* the WHERE clause of process_finance's select (status PENDING and
\* due_date <= today hold of every modelled row)
Selected(row, t) ==
    /\ row.wpp_status # "SENT"
    /\ IsNone(row.wpp_next_retry_at) \/ Val(row.wpp_next_retry_at) <= t

RECURSIVE AscendingIds(_)
\* ORDER BY due_date, id
AscendingIds(S) ==
    IF S = {} THEN <<>>
    ELSE LET m == CHOOSE x \in S : \A y \in S : x <= y
         IN  <<m>> \o AscendingIds(S \ {m})

\* session.flush() of a row loaded as `loaded` and now holding `cur`
Flush(stored, loaded, cur) ==
    [c \in SendColumns |-> IF cur[c] # loaded[c] THEN cur[c] ELSE stored[c]]

\* mutant: the claim stays in the session and is committed with the outcome
ClaimRowUncommitted(stored, loaded) == stored

\* the claim, lines 970-972: wpp_status = SENDING, db.flush(), _commit_row;
\* the row as stored once the commit returns
ClaimRow(stored, loaded) ==
    Flush(stored, loaded, [loaded EXCEPT !.wpp_status = "SENDING"])

\* mark_failed_generic
mark_failed_generic(row, t) ==
    LET tries == row.wpp_tries + 1
    IN  [row EXCEPT !.wpp_tries = tries,
                    !.wpp_status = "FAILED",
                    !.wpp_last_error = Some("err"),
                    !.wpp_next_retry_at = Some(t + compute_backoff_seconds(tries))]

\* the success branch of process_finance, lines 984-987
MarkSent(row, t) ==
    [row EXCEPT !.wpp_status = "SENT", !.wpp_sent_at = Some(t),
                !.wpp_last_error = None, !.wpp_next_retry_at = None]

DispatchInit ==
    /\ fin = [f \in FinIds |-> NewFinance]
    /\ now = 0
    /\ wpc = [w \in Workers |-> "idle"]
    /\ wrows = [w \in Workers |-> <<>>]
    /\ widx = [w \in Workers |-> 1]
    /\ wsnap = [w \in Workers |-> [f \in FinIds |-> NewFinance]]
    /\ attempts = [f \in FinIds |-> 0]
    /\ lastFail = None

\* time passes
AdvanceNow ==
    /\ \E d \in {compute_backoff_seconds(0), compute_backoff_seconds(1)} :
          /\ now + d <= MaxNow
          /\ now' = now + d
    /\ UNCHANGED <<fin, wpc, wrows, widx, wsnap, attempts, lastFail>>

\* a tick of worker w starts process_finance: the select
Select(w) ==
    /\ wpc[w] \in {"idle", "aborted", "down"}
    /\ LET rows == AscendingIds({f \in FinIds : Selected(fin[f], now)})
       IN  /\ rows # <<>>
           /\ wrows' = [wrows EXCEPT ![w] = rows]
           /\ wsnap' = [wsnap EXCEPT ![w] =
                  [f \in FinIds |-> IF \E i \in DOMAIN rows : rows[i] = f
                                    THEN fin[f] ELSE NewFinance]]
    /\ widx' = [widx EXCEPT ![w] = 1]
    /\ wpc' = [wpc EXCEPT ![w] = "loop"]
    /\ UNCHANGED <<fin, now, attempts, lastFail>>

\* worker w moves to the next row of its batch, or ends the task
NextRow(w) ==
    IF widx[w] < Len(wrows[w])
    THEN /\ widx' = [widx EXCEPT ![w] = widx[w] + 1]
         /\ wpc' = [wpc EXCEPT ![w] = "loop"]
         /\ UNCHANGED wrows
    ELSE /\ widx' = [widx EXCEPT ![w] = 1]
         /\ wpc' = [wpc EXCEPT ![w] = "idle"]
         /\ wrows' = [wrows EXCEPT ![w] = <<>>]

\* the head of the loop body: can_try on the session's row, then the claim
\* wpp_status = SENDING, flushed, committed and refreshed
Claim(w) ==
    /\ wpc[w] = "loop"
    /\ LET f == wrows[w][widx[w]]
           row == wsnap[w][f]
       IN  IF ~can_try(row.wpp_status, row.wpp_next_retry_at, now)
           THEN /\ NextRow(w)
                /\ wsnap' = IF wpc'[w] = "idle"
                            THEN [wsnap EXCEPT ![w] = [g \in FinIds |-> NewFinance]]
                            ELSE wsnap
                /\ UNCHANGED fin
           ELSE LET stored == ClaimRow(fin[f], row)
                IN  /\ fin' = [fin EXCEPT ![f] = stored]
                    /\ wsnap' = [wsnap EXCEPT ![w][f] = stored]
                    /\ wpc' = [wpc EXCEPT ![w] = "claimed"]
                    /\ UNCHANGED <<wrows, widx>>
    /\ UNCHANGED <<now, attempts, lastFail>>

\* send_whatsapp_text returns: the row is marked SENT, committed, refreshed
SendOk(w) ==
    /\ wpc[w] = "claimed"
    /\ LET f == wrows[w][widx[w]]
           row == wsnap[w][f]
           stored == Flush(fin[f], row, MarkSent(row, now))
       IN  /\ fin' = [fin EXCEPT ![f] = stored]
           /\ attempts' = [attempts EXCEPT ![f] = @ + 1]
           /\ NextRow(w)
           /\ wsnap' = IF wpc'[w] = "idle"
                       THEN [wsnap EXCEPT ![w] = [g \in FinIds |-> NewFinance]]
                       ELSE [wsnap EXCEPT ![w][f] = stored]
    /\ UNCHANGED <<now, lastFail>>

\* send_whatsapp_text raises UazapiError: mark_failed_generic, commit, refresh
SendFail(w) ==
    /\ wpc[w] = "claimed"
    /\ LET f == wrows[w][widx[w]]
           row == wsnap[w][f]
           failed == mark_failed_generic(row, now)
           stored == Flush(fin[f], row, failed)
       IN  /\ row.wpp_tries < MaxFailures
           /\ fin' = [fin EXCEPT ![f] = stored]
           /\ attempts' = [attempts EXCEPT ![f] = @ + 1]
           /\ lastFail' = Some([id |-> f, k |-> failed.wpp_tries, at |-> now,
                                next_retry_at |-> Val(failed.wpp_next_retry_at)])
           /\ NextRow(w)
           /\ wsnap' = IF wpc'[w] = "idle"
                       THEN [wsnap EXCEPT ![w] = [g \in FinIds |-> NewFinance]]
                       ELSE [wsnap EXCEPT ![w][f] = stored]
    /\ UNCHANGED now

\* the worker process dies in the middle of process_finance and is started
\* again: its session is gone, the store keeps what was committed.
\* in_send: it dies after send_whatsapp_text was called and before the
\* outcome is committed
Crash(w, in_send) ==
    /\ wpc[w] # "idle"
    /\ in_send => wpc[w] = "claimed"
    /\ attempts' = IF in_send THEN [attempts EXCEPT ![wrows[w][widx[w]]] = @ + 1]
                   ELSE attempts
    /\ wpc' = [wpc EXCEPT ![w] = "down"]
    /\ wrows' = [wrows EXCEPT ![w] = <<>>]
    /\ widx' = [widx EXCEPT ![w] = 1]
    /\ wsnap' = [wsnap EXCEPT ![w] = [g \in FinIds |-> NewFinance]]
    /\ UNCHANGED <<fin, now, lastFail>>

\* an exception that is not a UazapiError is raised in the loop body after the
\* claim (while the message is built, or by send_whatsapp_text outside its
\* requests.RequestException handler): no except clause of process_finance
\* matches, the exception leaves the task, run_loop rolls the session back
\* and goes on to the next task.  wrows and widx keep the batch as it was
\* left.  accepted: the provider had accepted the message
SendRaise(w, accepted) ==
    /\ wpc[w] = "claimed"
    /\ attempts' = IF accepted THEN [attempts EXCEPT ![wrows[w][widx[w]]] = @ + 1]
                   ELSE attempts
    /\ wpc' = [wpc EXCEPT ![w] = "aborted"]
    /\ wsnap' = [wsnap EXCEPT ![w] = [g \in FinIds |-> NewFinance]]
    /\ UNCHANGED <<fin, now, wrows, widx, lastFail>>

DispatchNext ==
    \/ AdvanceNow
    \/ \E w \in Workers : Select(w)
    \/ \E w \in Workers : Claim(w)
    \/ \E w \in Workers : SendOk(w)
    \/ \E w \in Workers : SendFail(w)
    \/ \E w \in Workers, in_send \in BOOLEAN : Crash(w, in_send)
    \/ \E w \in Workers, accepted \in BOOLEAN : SendRaise(w, accepted)

\* a single dispatcher instance: worker A alone
SoloNext ==
    \/ AdvanceNow
    \/ Select("A")
    \/ Claim("A")
    \/ SendOk("A")
    \/ SendFail("A")
    \/ \E in_send \in BOOLEAN : Crash("A", in_send)
    \/ \E accepted \in BOOLEAN : SendRaise("A", accepted)


(***************************************************************************)
(* Hourly product offer: offers_can_send_now, process_hourly_product_offer *)
(* and mark_offers_sent_this_hour as run_loop calls them.  Every tick      *)
(* reads the state file, so a process restart between two ticks changes    *)
(* nothing the next tick sees.                                             *)
(***************************************************************************)
MaxDay == 2            \* calendar days 1..MaxDay
MaxGroups == 2         \* configured groups: 1..MaxGroups
MaxProducts == 2       \* IN_STOCK products with a cover image: ids 1..MaxProducts
MaxTicks == 3          \* run_loop ticks

\* OFFERS_START_HOUR, OFFERS_END_HOUR
OffersStartHour == 7
OffersEndHour == 22

OfferProducts == 1..MaxProducts

\* state.get("date"), state.get("last_hour_sent") of the loaded state
StateDate(state) == IF IsNone(state) THEN None ELSE Some(Val(state).date)
StateLastHour(state) == IF IsNone(state) THEN None ELSE Some(Val(state).last_hour_sent)

\* offers_can_send_now
offers_can_send_now(now_local, state) ==
    IF now_local.hour < OffersStartHour \/ now_local.hour > OffersEndHour THEN FALSE
    ELSE IF StateDate(state) # Some(now_local.day) THEN TRUE
    ELSE IF StateLastHour(state) = Some(now_local.hour) THEN FALSE
    ELSE TRUE

\* sent_today_set of process_hourly_product_offer, lines 1319-1330
SentToday(state, today) ==
    IF StateDate(state) = Some(today) THEN Val(state).sent_product_ids ELSE {}

\* the product the loop of lines 1335-1350 picks (ids descending), if any
Chosen(state, today) ==
    LET free == OfferProducts \ SentToday(state, today)
    IN  IF free = {} THEN None
        ELSE Some(CHOOSE p \in free : \A q \in free : q <= p)

\* mark_offers_sent_this_hour
mark_offers_sent_this_hour(now_local, state, product_id) ==
    LET base == IF StateDate(state) # Some(now_local.day) THEN {}
                ELSE Val(state).sent_product_ids
    IN  Some([date |-> now_local.day,
              last_hour_sent |-> now_local.hour,
              sent_product_ids |-> base \cup {product_id}])

OffersInit ==
    /\ offState = None
    /\ offClock = [day |-> 1, hour |-> 0]
    /\ offGroups \in 1..MaxGroups
    /\ offTick = 0
    /\ delivered = {}

OffersIdle ==
    /\ offState = None
    /\ offClock = [day |-> 1, hour |-> 0]
    /\ offGroups = 1
    /\ offTick = 0
    /\ delivered = {}

\* an hour passes
AdvanceHour ==
    /\ IF offClock.hour < 23
       THEN offClock' = [offClock EXCEPT !.hour = @ + 1]
       ELSE /\ offClock.day < MaxDay
            /\ offClock' = [day |-> offClock.day + 1, hour |-> 0]
    /\ UNCHANGED <<offState, offGroups, offTick, delivered>>

\* the offers block of one run_loop tick.  first_bad is the first group whose
\* send raises (offGroups + 1: none does).
OfferTick(first_bad) ==
    /\ offTick < MaxTicks
    /\ offTick' = offTick + 1
    /\ UNCHANGED <<offClock, offGroups>>
    /\ LET chosen == Chosen(offState, offClock.day)
       IN  IF ~offers_can_send_now(offClock, offState) \/ IsNone(chosen)
           THEN UNCHANGED <<offState, delivered>>
           ELSE /\ delivered' = IF first_bad > 1
                                THEN delivered \cup {[tick |-> offTick + 1, day |-> offClock.day,
                                                      hour |-> offClock.hour, pid |-> Val(chosen)]}
                                ELSE delivered
                /\ offState' = IF first_bad > offGroups
                               THEN mark_offers_sent_this_hour(offClock, offState, Val(chosen))
                               ELSE offState

OffersNext ==
    \/ AdvanceHour
    \/ \E first_bad \in 1..(offGroups + 1) : OfferTick(first_bad)

(***************************************************************************)
(* Weekly report: process_weekly_report_text                               *)
(***************************************************************************)
MaxWeeks == 2          \* the clock runs over days 0..7*MaxWeeks-1

\* WEEKLY_REPORT_WEEKDAY, WEEKLY_REPORT_HOUR, WEEKLY_REPORT_MINUTE
WeeklyReportWeekday == 0
WeeklyReportHour == 8
WeeklyReportMinute == 0

\* date.weekday(): day 0 is a Monday
Weekday(day) == day % 7

\* week_start_end_local
week_start_end_local(today) ==
    LET start == today - Weekday(today)
    IN  <<start, start + 6>>

\* weekly_label: the two dates, in ISO format, joined by "_"
weekly_label(start, end) == <<start, end>>

\* mutant: the recorded label is never found
weekly_never_sent(file, label) == FALSE

\* weekly_already_sent
weekly_already_sent(file, label) == file = Some(label)

\* weekly_mark_sent
weekly_mark_sent(label) == Some(label)

\* (now_local.hour, now_local.minute) < (hour, minute)
BeforeTrigger(t) ==
    \/ t.hour < WeeklyReportHour
    \/ t.hour = WeeklyReportHour /\ t.minute < WeeklyReportMinute

WeeklyInit ==
    /\ wkFile = None
    /\ wkClock = [day |-> 0, hour |-> 0, minute |-> 0]
    /\ wkSends = <<>>
    /\ wkLast = None

\* half an hour passes
AdvanceWeekClock ==
    /\ IF wkClock.minute = 0 THEN wkClock' = [wkClock EXCEPT !.minute = 30]
       ELSE IF wkClock.hour < 23
       THEN wkClock' = [wkClock EXCEPT !.hour = @ + 1, !.minute = 0]
       ELSE /\ wkClock.day + 1 < 7 * MaxWeeks
            /\ wkClock' = [day |-> wkClock.day + 1, hour |-> 0, minute |-> 0]
    /\ UNCHANGED <<wkFile, wkSends, wkLast>>

\* one call of process_weekly_report_text; ok: send_whatsapp_text returns
\* mutant: the label is written before the send is attempted
WeeklyTickMarkFirst(ok) ==
    LET se == week_start_end_local(wkClock.day)
        label == weekly_label(se[1], se[2])
        due == Weekday(wkClock.day) = WeeklyReportWeekday /\ ~BeforeTrigger(wkClock)
        skipped == weekly_already_sent(wkFile, label)
    IN  /\ wkLast' = Some([due |-> due, label |-> label, skipped |-> skipped, ok |-> ok])
        /\ UNCHANGED wkClock
        /\ IF due /\ ~skipped
           THEN /\ wkFile' = weekly_mark_sent(label)
                /\ wkSends' = IF ok THEN Append(wkSends, [label |-> label, day |-> wkClock.day])
                               ELSE wkSends
           ELSE UNCHANGED <<wkFile, wkSends>>

WeeklyTick(ok) ==
    LET se == week_start_end_local(wkClock.day)
        label == weekly_label(se[1], se[2])
        due == Weekday(wkClock.day) = WeeklyReportWeekday /\ ~BeforeTrigger(wkClock)
        skipped == weekly_already_sent(wkFile, label)
    IN  /\ wkLast' = Some([due |-> due, label |-> label, skipped |-> skipped, ok |-> ok])
        /\ UNCHANGED wkClock
        /\ IF due /\ ~skipped /\ ok
           THEN /\ wkFile' = weekly_mark_sent(label)
                /\ wkSends' = Append(wkSends, [label |-> label, day |-> wkClock.day])
           ELSE UNCHANGED <<wkFile, wkSends>>

WeeklyNext ==
    \/ AdvanceWeekClock
    \/ \E ok \in BOOLEAN : WeeklyTick(ok)

(***************************************************************************)
(* run_loop: every iteration opens a session and runs the eight tasks,     *)
(* each inside its own try / except Exception that rolls the session back  *)
(* and prints the error; then it sleeps and starts over.                   *)
(***************************************************************************)
MaxLoopTicks == 2      \* iterations of run_loop followed

\* the tasks in the order run_loop calls them
Tasks == <<"sales_alerts", "finance", "due_soon", "due_today", "overdue",
           "weekly_report", "monthly_report", "offers">>

\* mutant: the except clause does not match what the task raised
AfterTaskUncaught(raised) == IF raised THEN "exit" ELSE "next"

\* try: task(...) / except Exception: db.rollback(); print(...)
AfterTask(raised) == "next"

RunLoopInit ==
    /\ rlTask = 1
    /\ rlLog = <<>>
    /\ rlTicks = 0
    /\ rlAlive = TRUE

\* the next task of the tick is called; raised: it ends with an exception
RunTask(raised) ==
    /\ rlAlive
    /\ rlTask <= Len(Tasks)
    /\ rlLog' = Append(rlLog, [task |-> Tasks[rlTask], raised |-> raised])
    /\ IF AfterTask(raised) = "next"
       THEN rlTask' = rlTask + 1 /\ UNCHANGED rlAlive
       ELSE rlAlive' = FALSE /\ UNCHANGED rlTask
    /\ UNCHANGED rlTicks

\* the end of the iteration: the summary print, time.sleep, and the next
\* iteration of while True
EndTick ==
    /\ rlAlive
    /\ rlTask = Len(Tasks) + 1
    /\ rlTicks < MaxLoopTicks
    /\ rlTicks' = rlTicks + 1
    /\ rlTask' = 1
    /\ rlLog' = <<>>
    /\ UNCHANGED rlAlive

RunLoopNext ==
    \/ \E raised \in BOOLEAN : RunTask(raised)
    \/ EndTick

(***************************************************************************)
(* Monthly report: process_monthly_report_pdf, called once per tick.       *)
(***************************************************************************)
MaxMonthDays == 5      \* days the clock is followed from its start

\* os.getenv("MONTHLY_REPORT_HOUR", "20"), os.getenv("MONTHLY_REPORT_MINUTE", "0")
MonthlyReportHour == 20
MonthlyReportMinute == 0

\* the Gregorian calendar of datetime.date
IsLeap(y) == (y % 4 = 0 /\ y % 100 # 0) \/ y % 400 = 0

DaysIn(y, m) ==
    IF m = 2 THEN (IF IsLeap(y) THEN 29 ELSE 28)
    ELSE IF m \in {4, 6, 9, 11} THEN 30 ELSE 31

\* d + timedelta(days=1)
NextDate(d) ==
    IF d.day < DaysIn(d.year, d.month) THEN [d EXCEPT !.day = @ + 1]
    ELSE IF d.month < 12 THEN [d EXCEPT !.month = @ + 1, !.day = 1]
    ELSE [d EXCEPT !.year = @ + 1, !.month = 1, !.day = 1]

\* mutant: the last day is taken to be the 30th
is_last_day_30(d) == d.day = 30

\* is_last_day_of_month
is_last_day_of_month(d) == NextDate(d).month # d.month

\* monthly_label: f"{year:04d}-{month:02d}"
monthly_label(year, month) == <<year, month>>

\* monthly_already_sent: _read_text_file(...) == label
monthly_already_sent(file, label) == file = <<label>>

\* monthly_mark_sent
monthly_mark_sent(label) == <<label>>

\* (now_local.hour, now_local.minute) < (hour, minute)
BeforeMonthlyTrigger(c) ==
    \/ c.hour < MonthlyReportHour
    \/ c.hour = MonthlyReportHour /\ c.minute < MonthlyReportMinute

\* the days the model starts from: the 27th of a 31-day month, of a 30-day
\* month, of December, and of February in a leap and in a common year
MonthlyStarts ==
    {[year |-> y, month |-> m, day |-> 27, hour |-> 0, minute |-> 0] :
        y \in {2024, 2025}, m \in {1, 2, 4, 12}}

MonthlyIdle ==
    /\ mnFile = <<>>
    /\ mnClock = [year |-> 2025, month |-> 1, day |-> 27, hour |-> 0, minute |-> 0]
    /\ mnDays = 0
    /\ mnSends = <<>>

MonthlyInit ==
    /\ mnFile = <<>>
    /\ mnClock \in MonthlyStarts
    /\ mnDays = 0
    /\ mnSends = <<>>

\* the local clock moves on by half an hour
AdvanceMonthClock ==
    /\ IF mnClock.minute = 0
       THEN mnClock' = [mnClock EXCEPT !.minute = 30] /\ UNCHANGED mnDays
       ELSE IF mnClock.hour < 23
       THEN mnClock' = [mnClock EXCEPT !.hour = @ + 1, !.minute = 0] /\ UNCHANGED mnDays
       ELSE /\ mnDays < MaxMonthDays
            /\ mnDays' = mnDays + 1
            /\ mnClock' = [NextDate(mnClock) EXCEPT !.hour = 0, !.minute = 0]
    /\ UNCHANGED <<mnFile, mnSends>>

\* one call of process_monthly_report_pdf; ok: the PDF is built and
\* send_whatsapp_media returns (otherwise one of the two except clauses
\* prints the failure and the task returns 0)
MonthlyTick(ok) ==
    LET label == monthly_label(mnClock.year, mnClock.month)
    IN  /\ UNCHANGED <<mnClock, mnDays>>
        /\ IF /\ is_last_day_of_month(mnClock)
              /\ ~BeforeMonthlyTrigger(mnClock)
              /\ ~monthly_already_sent(mnFile, label)
              /\ ok
           THEN /\ mnFile' = monthly_mark_sent(label)
                /\ mnSends' = Append(mnSends, [label |-> label, at |-> mnClock])
           ELSE UNCHANGED <<mnFile, mnSends>>

MonthlyNext ==
    \/ AdvanceMonthClock
    \/ \E ok \in BOOLEAN : MonthlyTick(ok)

(***************************************************************************)
(* State files: weekly_mark_sent / monthly_mark_sent call _write_text_file *)
(* and the hourly campaign calls _save_offers_hourly_state; both are one   *)
(* Path.write_text, which opens the file for writing (truncating it) and   *)
(* then writes the value.  A period's report is followed across a process  *)
(* kill inside that write.                                                 *)
(***************************************************************************)
MaxPeriods == 3        \* report periods followed
MaxKills == 2          \* process kills followed

\* the label of a period, as the sequence of its parts
PeriodLabel(p) == <<2025, p>>

\* what a killed Path.write_text(value) leaves in the file: nothing or a
\* proper prefix of the value
Prefixes(value) == {SubSeq(value, 1, k) : k \in 0..(Len(value) - 1)}

\* _read_text_file: the text of the file, "" when it cannot be read
read_text_file(file) == file

\* weekly_already_sent / monthly_already_sent
label_already_sent(file, label) == read_text_file(file) = label

StateFileInit ==
    /\ sfFile = <<>>
    /\ sfPc = "idle"
    /\ sfPeriod = 1
    /\ sfSends = <<>>
    /\ sfKills = 0

\* the next period begins
AdvancePeriod ==
    /\ sfPc = "idle"
    /\ sfPeriod < MaxPeriods
    /\ sfPeriod' = sfPeriod + 1
    /\ UNCHANGED <<sfFile, sfPc, sfSends, sfKills>>

\* a report task at its trigger time, up to the open() inside write_text
ReportTick(ok) ==
    /\ sfPc = "idle"
    /\ UNCHANGED <<sfPeriod, sfKills>>
    /\ IF ~label_already_sent(sfFile, PeriodLabel(sfPeriod)) /\ ok
       THEN /\ sfSends' = Append(sfSends, PeriodLabel(sfPeriod))
            /\ sfFile' = <<>>
            /\ sfPc' = "writing"
       ELSE UNCHANGED <<sfFile, sfPc, sfSends>>

\* write_text writes the value and closes the file; the task returns
WriteTextEnd ==
    /\ sfPc = "writing"
    /\ sfFile' = PeriodLabel(sfPeriod)
    /\ sfPc' = "idle"
    /\ UNCHANGED <<sfPeriod, sfSends, sfKills>>

\* the process is killed inside write_text
KillInWrite ==
    /\ sfPc = "writing"
    /\ sfKills < MaxKills
    /\ sfFile' \in Prefixes(PeriodLabel(sfPeriod))
    /\ sfPc' = "down"
    /\ sfKills' = sfKills + 1
    /\ UNCHANGED <<sfPeriod, sfSends>>

\* the worker is started again
Restart ==
    /\ sfPc = "down"
    /\ sfPc' = "idle"
    /\ UNCHANGED <<sfFile, sfPeriod, sfSends, sfKills>>

StateFileNext ==
    \/ AdvancePeriod
    \/ \E ok \in BOOLEAN : ReportTick(ok)
    \/ WriteTextEnd
    \/ KillInWrite
    \/ Restart

(***************************************************************************)
(* Startup: run_loop's configuration checks, then process_finance ticks    *)
(* with the environment the process was started in.  uazapi._cfg reads the *)
(* token on every send.                                                    *)
(***************************************************************************)
\* which of UAZAPI_TOKEN, UAZAPI_DEFAULT_TO and the group ids are set
Environments == [token : BOOLEAN, default_to : BOOLEAN, groups : BOOLEAN]

StartupIdle ==
    /\ cfEnv = [token |-> TRUE, default_to |-> TRUE, groups |-> TRUE]
    /\ cfPc = "start"
    /\ cfRows = [f \in FinIds |-> NewFinance]
    /\ cfNow = 0

StartupInit ==
    /\ cfEnv \in Environments
    /\ cfPc = "start"
    /\ cfRows = [f \in FinIds |-> NewFinance]
    /\ cfNow = 0

\* run_loop up to `while True`: RuntimeError when UAZAPI_DEFAULT_TO or the
\* group ids are missing; the token is only printed
Startup ==
    /\ cfPc = "start"
    /\ cfPc' = IF ~cfEnv.default_to \/ ~cfEnv.groups THEN "fatal" ELSE "loop"
    /\ UNCHANGED <<cfEnv, cfRows, cfNow>>

\* _cfg: UazapiError when the token is empty
cfg_raises(env) == ~env.token

\* time passes between ticks
StartupAdvance ==
    /\ cfPc = "loop"
    /\ \E d \in {compute_backoff_seconds(0), compute_backoff_seconds(1)} :
          /\ cfNow + d <= MaxNow
          /\ cfNow' = cfNow + d
    /\ UNCHANGED <<cfEnv, cfPc, cfRows>>

\* process_finance on row f in one tick of the only worker: select, can_try,
\* claim, send_whatsapp_text (which calls _cfg first), outcome
FinanceTick(f, accepted) ==
    /\ cfPc = "loop"
    /\ f \in {g \in FinIds : Selected(cfRows[g], cfNow)}
    /\ can_try(cfRows[f].wpp_status, cfRows[f].wpp_next_retry_at, cfNow)
    /\ LET claimed == ClaimRow(cfRows[f], cfRows[f])
       IN  IF cfg_raises(cfEnv) \/ ~accepted
           THEN /\ claimed.wpp_tries < MaxFailures
                /\ cfRows' = [cfRows EXCEPT ![f] = mark_failed_generic(claimed, cfNow)]
           ELSE cfRows' = [cfRows EXCEPT ![f] = MarkSent(claimed, cfNow)]
    /\ UNCHANGED <<cfEnv, cfPc, cfNow>>

StartupNext ==
    \/ Startup
    \/ StartupAdvance
    \/ \E f \in FinIds : \E accepted \in BOOLEAN : FinanceTick(f, accepted)

(***************************************************************************)
(* Reminders: the four dispatch tasks (process_finance,                    *)
(* process_installments_due_soon, process_installments_due_today_to_client,*)
(* process_installments_overdue) of one worker on a store that holds one   *)
(* finance row or one installment row with all its columns, over several   *)
(* days, while the API may pay the row.                                    *)
(***************************************************************************)
MaxRmDay == 6          \* the last local day followed (day 0 is the first)

\* os.getenv("PROMISSORY_REMINDER_DAYS", "5")
ReminderDays == 5

DaySeconds == 86400

\* today_local_date() at time t
Today(t) == t \div DaySeconds

Channels == {"finance", "due_soon", "due_today", "overdue"}

ChannelsOf(kind) ==
    IF kind = "finance" THEN {"finance"} ELSE {"due_soon", "due_today", "overdue"}

\* the Send-State columns of each channel, by the role they play
ChannelColumns ==
    [finance |->
        [wpp_status |-> "wpp_status", wpp_tries |-> "wpp_tries",
         wpp_last_error |-> "wpp_last_error", wpp_sent_at |-> "wpp_sent_at",
         wpp_next_retry_at |-> "wpp_next_retry_at"],
     due_soon |->
        [wpp_status |-> "wa_due_status", wpp_tries |-> "wa_due_tries",
         wpp_last_error |-> "wa_due_last_error", wpp_sent_at |-> "wa_due_sent_at",
         wpp_next_retry_at |-> "wa_due_next_retry_at"],
     due_today |->
        [wpp_status |-> "wa_today_status", wpp_tries |-> "wa_today_tries",
         wpp_last_error |-> "wa_today_last_error", wpp_sent_at |-> "wa_today_sent_at",
         wpp_next_retry_at |-> "wa_today_next_retry_at"],
     overdue |->
        [wpp_status |-> "wa_overdue_status", wpp_tries |-> "wa_overdue_tries",
         wpp_last_error |-> "wa_overdue_last_error", wpp_sent_at |-> "wa_overdue_sent_at",
         wpp_next_retry_at |-> "wa_overdue_next_retry_at"]]

ColumnsOf(ch) == {ChannelColumns[ch][r] : r \in SendColumns}

BillingColumns(kind) ==
    IF kind = "finance" THEN {"status", "amount", "due_date"}
    ELSE {"status", "amount", "due_date", "paid_at", "paid_amount"}

AllColumns(kind) == BillingColumns(kind) \cup UNION {ColumnsOf(ch) : ch \in ChannelsOf(kind)}

\* FinanceORM(...) / InstallmentORM(...) with the column defaults
NewRow(kind, due_date) ==
    [c \in AllColumns(kind) |->
        IF c = "status" THEN "PENDING"
        ELSE IF c = "amount" THEN 1
        ELSE IF c = "due_date" THEN due_date
        ELSE IF \E ch \in ChannelsOf(kind) : c = ChannelColumns[ch].wpp_status THEN "PENDING"
        ELSE IF \E ch \in ChannelsOf(kind) : c = ChannelColumns[ch].wpp_tries THEN 0
        ELSE None]

\* the Send-State block of channel ch in a row
Block(row, ch) == [r \in SendColumns |-> row[ChannelColumns[ch][r]]]

\* the row with the attributes of channel ch assigned from blk
WithBlock(row, ch, blk) ==
    [c \in DOMAIN row |->
        IF c \in ColumnsOf(ch)
        THEN blk[CHOOSE r \in SendColumns : ChannelColumns[ch][r] = c]
        ELSE row[c]]

\* mutant: the flush writes every column of the session's copy
RowFlushAll(stored, loaded, cur) == cur

\* db.flush() + commit of a row loaded as `loaded` and now holding `cur`:
\* the UPDATE sets the changed attributes only
RowFlush(stored, loaded, cur) ==
    [c \in DOMAIN stored |-> IF cur[c] # loaded[c] THEN cur[c] ELSE stored[c]]

\* the due_date condition of each task's select
DateSelected(ch, due_date, today) ==
    IF ch = "finance" THEN due_date <= today
    ELSE IF ch = "due_soon" THEN due_date = today + ReminderDays
    ELSE IF ch = "due_today" THEN due_date = today
    ELSE due_date < today

\* the WHERE clause of each task's select
RowSelected(ch, row, t) ==
    LET blk == Block(row, ch)
    IN  /\ row["status"] = "PENDING"
        /\ DateSelected(ch, row["due_date"], Today(t))
        /\ blk.wpp_status # "SENT"
        /\ ch = "due_today" => blk.wpp_status # "SENDING"
        /\ IF IsNone(blk.wpp_next_retry_at) THEN TRUE
           ELSE Val(blk.wpp_next_retry_at) <= t

ReminderIdle ==
    /\ rmKind = "finance"
    /\ rmRow = NewRow("finance", 1)
    /\ rmProm = "NONE"
    /\ rmNow = 0
    /\ rmPc = None
    /\ rmSnap = None
    /\ rmLast = None

ReminderInit ==
    /\ rmKind \in {"finance", "installment"}
    /\ \E due_date \in {1, ReminderDays} : rmRow = NewRow(rmKind, due_date)
    /\ rmProm = IF rmKind = "installment" THEN "ISSUED" ELSE "NONE"
    /\ rmNow = 0
    /\ rmPc = None
    /\ rmSnap = None
    /\ rmLast = None

\* the retry times recorded in the row that are still ahead
PendingRetries ==
    {Val(rmRow[ChannelColumns[ch].wpp_next_retry_at]) :
        ch \in {c \in ChannelsOf(rmKind) :
                  /\ ~IsNone(rmRow[ChannelColumns[c].wpp_next_retry_at])
                  /\ Val(rmRow[ChannelColumns[c].wpp_next_retry_at]) > rmNow}}

\* time passes between ticks: to half a minute before midnight, to midnight,
\* or to a recorded retry time
RmAdvance ==
    /\ rmPc = None
    /\ \E t \in {Today(rmNow) * DaySeconds + DaySeconds - 30,
                 (Today(rmNow) + 1) * DaySeconds} \cup PendingRetries :
          /\ t > rmNow
          /\ Today(t) <= MaxRmDay
          /\ rmNow' = t
    /\ rmLast' = Some([op |-> "advance", ch |-> "-"])
    /\ UNCHANGED <<rmKind, rmRow, rmProm, rmPc, rmSnap>>

\* POST /finance/{id}/pay or pay_installment on the PENDING row (the only
\* installment of its promissory, so the promissory becomes PAID)
RmPay ==
    /\ rmRow["status"] = "PENDING"
    /\ rmRow' = IF rmKind = "finance"
                THEN [rmRow EXCEPT !["status"] = "PAID"]
                ELSE [rmRow EXCEPT !["status"] = "PAID",
                                   !["paid_at"] = Some(rmNow),
                                   !["paid_amount"] = Some(rmRow["amount"])]
    /\ rmProm' = IF rmKind = "finance" THEN rmProm ELSE "PAID"
    /\ rmLast' = Some([op |-> "pay", ch |-> "-"])
    /\ UNCHANGED <<rmKind, rmNow, rmPc, rmSnap>>

\* the task of channel ch in a tick: select, can_try, status = SENDING,
\* flush, _commit_row (commit and refresh)
RmClaim(ch) ==
    /\ rmPc = None
    /\ ch \in {c \in ChannelsOf(rmKind) : RowSelected(c, rmRow, rmNow)}
    /\ can_try(Block(rmRow, ch).wpp_status, Block(rmRow, ch).wpp_next_retry_at, rmNow)
    /\ LET cur == WithBlock(rmRow, ch, [Block(rmRow, ch) EXCEPT !.wpp_status = "SENDING"])
           stored == RowFlush(rmRow, rmRow, cur)
       IN  /\ rmRow' = stored
           /\ rmSnap' = Some(stored)
    /\ rmPc' = Some(ch)
    /\ rmLast' = Some([op |-> "claim", ch |-> ch])
    /\ UNCHANGED <<rmKind, rmProm, rmNow>>

\* the provider accepts: SENT, flush, _commit_row
RmSendOk(ch) ==
    /\ rmPc = Some(ch)
    /\ LET loaded == Val(rmSnap)
           cur == WithBlock(loaded, ch, MarkSent(Block(loaded, ch), rmNow))
       IN  rmRow' = RowFlush(rmRow, loaded, cur)
    /\ rmPc' = None
    /\ rmSnap' = None
    /\ rmLast' = Some([op |-> "sent", ch |-> ch])
    /\ UNCHANGED <<rmKind, rmProm, rmNow>>

\* UazapiError: tries + 1, FAILED, next retry, flush, _commit_row
RmSendFail(ch) ==
    /\ rmPc = Some(ch)
    /\ LET loaded == Val(rmSnap)
           cur == WithBlock(loaded, ch, mark_failed_generic(Block(loaded, ch), rmNow))
       IN  /\ Block(loaded, ch).wpp_tries < MaxFailures
           /\ rmRow' = RowFlush(rmRow, loaded, cur)
    /\ rmPc' = None
    /\ rmSnap' = None
    /\ rmLast' = Some([op |-> "failed", ch |-> ch])
    /\ UNCHANGED <<rmKind, rmProm, rmNow>>

\* the worker process dies between the commit of the claim and the commit
\* of the outcome and is started again: its session is gone, the store keeps
\* the claim
RmCrash(ch) ==
    /\ rmPc = Some(ch)
    /\ rmPc' = None
    /\ rmSnap' = None
    /\ rmLast' = Some([op |-> "crash", ch |-> ch])
    /\ UNCHANGED <<rmKind, rmRow, rmProm, rmNow>>

ReminderNext ==
    \/ RmAdvance
    \/ RmPay
    \/ \E ch \in Channels : RmClaim(ch)
    \/ \E ch \in Channels : RmSendOk(ch)
    \/ \E ch \in Channels : RmSendFail(ch)
    \/ \E ch \in Channels : RmCrash(ch)

(***************************************************************************)
(* Concurrent billing requests: pay_installment and cancel_promissory on   *)
(* one promissory, each in its own session and transaction (get_db opens   *)
(* one SessionLocal per request; db.py sets no isolation level, so the     *)
(* PostgreSQL default READ COMMITTED applies: every statement reads what   *)
(* is committed when it runs, an UPDATE waits for the row lock of an       *)
(* uncommitted writer and then overwrites, and a flush writes the changed  *)
(* attributes only).                                                       *)
(***************************************************************************)
MaxTxns == 2           \* concurrent requests
MaxTxInsts == 2        \* installments of the promissory

Txns == 1..MaxTxns
TxInsts == 1..MaxTxInsts

\* the requests: pay installment k, or cancel the promissory
TxRequests ==
    {[op |-> "pay", k |-> k] : k \in TxInsts} \cup {[op |-> "cancel", k |-> 0]}

NoWrites == [prom |-> None, sale |-> None, inst |-> [k \in TxInsts |-> None]]

TxnInit ==
    /\ txDb \in [prom : {"DRAFT", "ISSUED"}, sale : {"DRAFT", "CANCELED"},
                 inst : {[k \in TxInsts |-> "PENDING"]}]
    /\ txReq \in [Txns -> TxRequests]
    /\ txPc = [t \in Txns |-> "start"]
    /\ txProm = [t \in Txns |-> "NONE"]
    /\ txInsts = [t \in Txns |-> [k \in TxInsts |-> "NONE"]]
    /\ txWrites = [t \in Txns |-> NoWrites]

TxnIdle ==
    /\ txDb = [prom |-> "ISSUED", sale |-> "DRAFT", inst |-> [k \in TxInsts |-> "PENDING"]]
    /\ txReq = [t \in Txns |-> [op |-> "cancel", k |-> 0]]
    /\ txPc = [t \in Txns |-> "start"]
    /\ txProm = [t \in Txns |-> "NONE"]
    /\ txInsts = [t \in Txns |-> [k \in TxInsts |-> "NONE"]]
    /\ txWrites = [t \in Txns |-> NoWrites]

\* no other transaction holds an uncommitted write of the row
PromFree(t) == \A u \in Txns \ {t} : IsNone(txWrites[u].prom)
SaleFree(t) == \A u \in Txns \ {t} : IsNone(txWrites[u].sale)
InstFree(t, k) == \A u \in Txns \ {t} : IsNone(txWrites[u].inst[k])

\* pay_installment: db.get(InstallmentORM, inst_id), inst.promissory and the
\* status checks
TxPayLoad(t) ==
    /\ txPc[t] = "start"
    /\ txReq[t].op = "pay"
    /\ LET g == PayGuard(txDb.prom, txDb.inst[txReq[t].k])
       IN  txPc' = [txPc EXCEPT ![t] =
              IF g = "conflict" THEN "failed"
              ELSE IF g = "return" THEN "done" ELSE "loaded"]
    /\ txProm' = [txProm EXCEPT ![t] = txDb.prom]
    /\ UNCHANGED <<txDb, txReq, txInsts, txWrites>>

\* cancel_promissory: db.get(PromissoryORM, prom_id) and the status checks
TxCancelLoad(t) ==
    /\ txPc[t] = "start"
    /\ txReq[t].op = "cancel"
    /\ txPc' = [txPc EXCEPT ![t] =
          IF txDb.prom = "CANCELED" THEN "done"
          ELSE IF txDb.prom = "PAID" THEN "failed" ELSE "loaded"]
    /\ txProm' = [txProm EXCEPT ![t] = txDb.prom]
    /\ UNCHANGED <<txDb, txReq, txInsts, txWrites>>

\* pay_installment: inst.status = PAID, db.flush()
TxPayFlush(t) ==
    /\ txPc[t] = "loaded"
    /\ txReq[t].op = "pay"
    /\ InstFree(t, txReq[t].k)
    /\ txWrites' = [txWrites EXCEPT ![t].inst[txReq[t].k] = Some("PAID")]
    /\ txPc' = [txPc EXCEPT ![t] = "flushed"]
    /\ UNCHANGED <<txDb, txReq, txProm, txInsts>>

\* pay_installment: prom.installments is loaded (the paid installment is the
\* session's own object, the others are read as committed), and when all are
\* PAID the promissory and its sale are written
TxPayCascade(t) ==
    /\ txPc[t] = "flushed"
    /\ txReq[t].op = "pay"
    /\ LET rows == [k \in TxInsts |->
                       [status |-> IF k = txReq[t].k THEN "PAID" ELSE txDb.inst[k]]]
           prom_dirty == txProm[t] # "PAID"
           sale_dirty == txDb.sale # SaleAfterPay(txDb.sale)
       IN  IF AllPaid(rows)
           THEN /\ prom_dirty => PromFree(t)
                /\ sale_dirty => SaleFree(t)
                /\ txWrites' = [txWrites EXCEPT
                      ![t].prom = IF prom_dirty THEN Some("PAID") ELSE @,
                      ![t].sale = IF sale_dirty THEN Some(SaleAfterPay(txDb.sale)) ELSE @]
           ELSE UNCHANGED txWrites
    /\ txPc' = [txPc EXCEPT ![t] = "ready"]
    /\ UNCHANGED <<txDb, txReq, txProm, txInsts>>

\* cancel_promissory: prom.installments is loaded for has_paid, then the
\* transition check
TxCancelCheck(t) ==
    /\ txPc[t] = "loaded"
    /\ txReq[t].op = "cancel"
    /\ txInsts' = [txInsts EXCEPT ![t] = txDb.inst]
    /\ txPc' = [txPc EXCEPT ![t] =
          IF \E k \in TxInsts : txDb.inst[k] = "PAID" THEN "failed"
          ELSE IF "CANCELED" \notin PromAllowedTransitions(txProm[t]) THEN "failed"
          ELSE "checked"]
    /\ UNCHANGED <<txDb, txReq, txProm, txWrites>>

\* cancel_promissory: prom.status = CANCELED, every installment the session
\* holds as PENDING becomes CANCELED, db.flush()
TxCancelFlush(t) ==
    /\ txPc[t] = "checked"
    /\ txReq[t].op = "cancel"
    /\ PromFree(t)
    /\ \A k \in TxInsts : txInsts[t][k] = "PENDING" => InstFree(t, k)
    /\ txWrites' = [txWrites EXCEPT
          ![t].prom = Some("CANCELED"),
          ![t].inst = [k \in TxInsts |->
                          IF txInsts[t][k] = "PENDING" THEN Some("CANCELED") ELSE None]]
    /\ txPc' = [txPc EXCEPT ![t] = "ready"]
    /\ UNCHANGED <<txDb, txReq, txProm, txInsts>>

\* db.commit() in get_db / in the endpoint
TxCommit(t) ==
    /\ txPc[t] = "ready"
    /\ LET w == txWrites[t]
       IN  txDb' = [prom |-> IF IsNone(w.prom) THEN txDb.prom ELSE Val(w.prom),
                    sale |-> IF IsNone(w.sale) THEN txDb.sale ELSE Val(w.sale),
                    inst |-> [k \in TxInsts |->
                                 IF IsNone(w.inst[k]) THEN txDb.inst[k] ELSE Val(w.inst[k])]]
    /\ txWrites' = [txWrites EXCEPT ![t] = NoWrites]
    /\ txPc' = [txPc EXCEPT ![t] = "done"]
    /\ UNCHANGED <<txReq, txProm, txInsts>>

TxnNext ==
    \/ \E t \in Txns : TxPayLoad(t)
    \/ \E t \in Txns : TxCancelLoad(t)
    \/ \E t \in Txns : TxPayFlush(t)
    \/ \E t \in Txns : TxPayCascade(t)
    \/ \E t \in Txns : TxCancelCheck(t)
    \/ \E t \in Txns : TxCancelFlush(t)
    \/ \E t \in Txns : TxCommit(t)

(***************************************************************************)
(* Confirmed-sale alerts (process_confirmed_sales_alerts): the task keeps  *)
(* max_id, the largest sale id it has handled, in a state file and selects *)
(* the CONFIRMED sales with id > max_id.  ALERT_TO is set and the alerts   *)
(* are enabled.                                                            *)
(***************************************************************************)
MaxAlertSales == 4     \* sales
AlertLimit == 200      \* .limit(200) of the select

AlertSaleIds == 1..MaxAlertSales

\* ORDER BY id ASC LIMIT n over a set of ids
FirstRows(ids, n) == {s \in ids : Cardinality({u \in ids : u < s}) < n}

SetMax(ids, least) == IF ids = {} THEN least ELSE CHOOSE s \in ids : \A u \in ids : u <= s

\* the select of process_confirmed_sales_alerts
AlertRows(status, max_id) ==
    FirstRows({s \in AlertSaleIds : status[s] = "CONFIRMED" /\ s > max_id}, AlertLimit)

AlertIdle ==
    /\ alSales = [s \in AlertSaleIds |-> "DRAFT"]
    /\ alMax = 0
    /\ alSent = {}
    /\ alTried = {}

AlertInit ==
    /\ alSales \in [AlertSaleIds -> {"DRAFT", "CONFIRMED"}]
    /\ alMax = 0
    /\ alSent = {}
    /\ alTried = {}

\* a sale becomes CONFIRMED (the cascade of pay_installment, or a status
\* update), whatever its id
ConfirmSale(s) ==
    /\ alSales[s] = "DRAFT"
    /\ alSales' = [alSales EXCEPT ![s] = "CONFIRMED"]
    /\ UNCHANGED <<alMax, alSent, alTried>>

\* one run of process_confirmed_sales_alerts; ok is the set of selected sales
\* whose send_whatsapp_text is accepted, the other sends raise and are logged
AlertTick(ok) ==
    LET rows == AlertRows(alSales, alMax)
    IN  /\ ok \subseteq rows
        /\ alSent' = alSent \cup ok
        /\ alTried' = alTried \cup rows
        /\ alMax' = SetMax(rows, alMax)
        /\ UNCHANGED alSales

AlertNext ==
    \/ \E s \in AlertSaleIds : ConfirmSale(s)
    \/ \E ok \in SUBSET AlertSaleIds : AlertTick(ok)

(***************************************************************************)
(* The batch limit of the dispatch tasks.  Each task selects its rows with *)
(* ORDER BY (due_date,) id and a LIMIT, without an offset, and its loop    *)
(* skips some of the rows the select returned: a channel left in SENDING   *)
(* (finance, due-soon, overdue; due-today's WHERE excludes it) and, for    *)
(* due-today, a client without a usable phone.  bkSkipped rows of that     *)
(* kind sort before the rows 1..MaxBatchRows; every modelled row is        *)
(* PENDING with a due date its task selects, and a FAILED row's            *)
(* next_retry_at has passed at each tick.                                  *)
(***************************************************************************)
MaxBatchRows == 2      \* rows sorted after the skipped ones
MaxBatchTicks == 2     \* runs of the task

BatchRowIds == 1..MaxBatchRows

\* .limit(...) of process_finance, process_installments_due_soon,
\* process_installments_due_today_to_client, process_installments_overdue
BatchLimits == [finance |-> 50, due_soon |-> 200, due_today |-> 300, overdue |-> 100]

\* the WHERE clause of the task's select, on the channel status
BatchSelected(ch, row) ==
    /\ row.wpp_status # "SENT"
    /\ ch = "due_today" => row.wpp_status # "SENDING"

\* the `continue` statements at the top of the task's loop
BatchSkips(ch, row) ==
    \/ ch = "due_today" /\ ~row.phone
    \/ ~can_try(row.wpp_status, None, 0)

\* the rows 1..MaxBatchRows the select returns after `skipped` earlier rows
Batch(ch, skipped, rows) ==
    FirstRows({r \in BatchRowIds : BatchSelected(ch, rows[r])}, BatchLimits[ch] - skipped)

BatchIdle ==
    /\ bkCat = "finance"
    /\ bkSkipped = 0
    /\ bkRows = [r \in BatchRowIds |-> [wpp_status |-> "PENDING", phone |-> TRUE]]
    /\ bkTicks = 0
    /\ bkLast = {}

BatchInit ==
    /\ bkCat \in Channels
    /\ bkSkipped \in {0, BatchLimits[bkCat] - 1, BatchLimits[bkCat]}
    /\ bkRows \in [BatchRowIds -> [wpp_status : {"PENDING"}, phone : BOOLEAN]]
    /\ bkTicks = 0
    /\ bkLast = {}

\* one run of the task: every returned row the loop does not skip is claimed
\* and sent, out[r] tells whether the provider accepts it; with stop = r the
\* process is killed after the claim of row r was committed
BatchTick(out, stop) ==
    LET batch == Batch(bkCat, bkSkipped, bkRows)
        taken == {r \in batch : ~BatchSkips(bkCat, bkRows[r])}
    IN  /\ bkTicks < MaxBatchTicks
        /\ stop \in taken \cup {0}
        /\ bkRows' = [r \in BatchRowIds |->
              IF r \notin taken \/ (stop # 0 /\ r > stop) THEN bkRows[r]
              ELSE IF r = stop THEN [bkRows[r] EXCEPT !.wpp_status = "SENDING"]
              ELSE IF out[r] THEN [bkRows[r] EXCEPT !.wpp_status = "SENT"]
              ELSE [bkRows[r] EXCEPT !.wpp_status = "FAILED"]]
        /\ bkTicks' = bkTicks + 1
        /\ bkLast' = {r \in taken : stop = 0 \/ r <= stop}
        /\ UNCHANGED <<bkCat, bkSkipped>>

BatchNext ==
    \E out \in [BatchRowIds -> BOOLEAN], stop \in 0..MaxBatchRows : BatchTick(out, stop)

SchedIdle == RunLoopInit /\ MonthlyIdle /\ StateFileInit /\ StartupIdle /\ ReminderIdle /\ TxnIdle /\ AlertIdle /\ BatchIdle

(***************************************************************************)
(* Specifications                                                          *)
(***************************************************************************)
Init ==
    /\ BillingInit /\ CreateIdle /\ AmortIdle /\ BackoffIdle /\ DispatchInit /\ OffersIdle /\ WeeklyInit /\ SchedIdle

Next ==
    /\ BillingNext
    /\ UNCHANGED <<createVars, amortVars, backoffVars, dispatchVars, offersVars, weeklyVars, schedVars>>

Spec == Init /\ [][Next]_vars

CreateSpecInit ==
    /\ CreateInit /\ AmortIdle /\ BackoffIdle /\ DispatchInit /\ OffersIdle /\ WeeklyInit /\ SchedIdle

CreateSpecNext ==
    /\ CreateCall
    /\ UNCHANGED <<amortVars, backoffVars, dispatchVars, offersVars, weeklyVars, schedVars>>

CreateSpec == CreateSpecInit /\ [][CreateSpecNext]_vars

AmortSpecInit ==
    /\ BillingInit /\ CreateIdle /\ AmortInit /\ BackoffIdle /\ DispatchInit /\ OffersIdle /\ WeeklyInit /\ SchedIdle

AmortNext ==
    /\ AmortCreate
    /\ UNCHANGED <<billingVars, createVars, backoffVars, dispatchVars, offersVars, weeklyVars, schedVars>>

AmortSpec == AmortSpecInit /\ [][AmortNext]_vars

BackoffSpecInit ==
    /\ BillingInit /\ CreateIdle /\ AmortIdle /\ BackoffInit /\ DispatchInit /\ OffersIdle /\ WeeklyInit /\ SchedIdle

BackoffNext ==
    /\ BackoffCall
    /\ UNCHANGED <<billingVars, createVars, amortVars, dispatchVars, offersVars, weeklyVars, schedVars>>

BackoffSpec == BackoffSpecInit /\ [][BackoffNext]_vars

DispatchSpecInit ==
    /\ BillingInit /\ CreateIdle /\ AmortIdle /\ BackoffIdle /\ DispatchInit /\ OffersIdle /\ WeeklyInit /\ SchedIdle

DispatchSpecNext ==
    /\ DispatchNext
    /\ UNCHANGED <<billingVars, createVars, amortVars, backoffVars, offersVars, weeklyVars, schedVars>>

DispatchSpec == DispatchSpecInit /\ [][DispatchSpecNext]_vars

SoloSpecNext ==
    /\ SoloNext
    /\ UNCHANGED <<billingVars, createVars, amortVars, backoffVars, offersVars, weeklyVars, schedVars>>

SoloSpec == DispatchSpecInit /\ [][SoloSpecNext]_vars

BaseIdle ==
    /\ BillingInit /\ CreateIdle /\ AmortIdle /\ BackoffIdle /\ DispatchInit /\ OffersIdle
    /\ WeeklyInit

RunLoopSpecInit ==
    /\ BaseIdle /\ RunLoopInit /\ MonthlyIdle /\ StateFileInit /\ StartupIdle /\ ReminderIdle /\ TxnIdle /\ AlertIdle /\ BatchIdle

RunLoopSpecNext ==
    /\ RunLoopNext
    /\ UNCHANGED <<baseVars, monthlyVars, stateFileVars, startupVars, reminderVars, txnVars, alertVars, batchVars>>

MonthlySpecInit ==
    /\ BaseIdle /\ RunLoopInit /\ MonthlyInit /\ StateFileInit /\ StartupIdle /\ ReminderIdle /\ TxnIdle /\ AlertIdle /\ BatchIdle

MonthlySpecNext ==
    /\ MonthlyNext
    /\ UNCHANGED <<baseVars, runloopVars, stateFileVars, startupVars, reminderVars, txnVars, alertVars, batchVars>>

StateFileSpecInit ==
    /\ BaseIdle /\ RunLoopInit /\ MonthlyIdle /\ StateFileInit /\ StartupIdle /\ ReminderIdle /\ TxnIdle /\ AlertIdle /\ BatchIdle

StateFileSpecNext ==
    /\ StateFileNext
    /\ UNCHANGED <<baseVars, runloopVars, monthlyVars, startupVars, reminderVars, txnVars, alertVars, batchVars>>

StateFileSpec == StateFileSpecInit /\ [][StateFileSpecNext]_vars

MonthlySpec == MonthlySpecInit /\ [][MonthlySpecNext]_vars

RunLoopSpec == RunLoopSpecInit /\ [][RunLoopSpecNext]_vars

OffersSpecInit ==
    /\ BillingInit /\ CreateIdle /\ AmortIdle /\ BackoffIdle /\ DispatchInit /\ OffersInit /\ WeeklyInit /\ SchedIdle

OffersSpecNext ==
    /\ OffersNext
    /\ UNCHANGED <<billingVars, createVars, amortVars, backoffVars, dispatchVars, weeklyVars, schedVars>>

OffersSpec == OffersSpecInit /\ [][OffersSpecNext]_vars

WeeklySpecInit ==
    /\ BillingInit /\ CreateIdle /\ AmortIdle /\ BackoffIdle /\ DispatchInit /\ OffersIdle /\ WeeklyInit /\ SchedIdle

WeeklySpecNext ==
    /\ WeeklyNext
    /\ UNCHANGED <<billingVars, createVars, amortVars, backoffVars, dispatchVars, offersVars, schedVars>>

WeeklySpec == WeeklySpecInit /\ [][WeeklySpecNext]_vars

\* the two report tasks, each followed on its own from the common start
ReportsSpecInit ==
    /\ BaseIdle /\ SchedIdle /\ TxnIdle /\ AlertIdle /\ BatchIdle

ReportsSpecNext ==
    \/ /\ MonthlyIdle
       /\ WeeklyNext
       /\ UNCHANGED <<billingVars, createVars, amortVars, backoffVars, dispatchVars,
                      offersVars, schedVars>>
    \/ /\ WeeklyInit
       /\ MonthlyNext
       /\ UNCHANGED <<baseVars, runloopVars, stateFileVars, startupVars, reminderVars,
                      txnVars, alertVars, batchVars>>

ReportsSpec == ReportsSpecInit /\ [][ReportsSpecNext]_vars

StartupSpecInit ==
    /\ BaseIdle /\ RunLoopInit /\ MonthlyIdle /\ StateFileInit /\ StartupInit /\ ReminderIdle /\ TxnIdle /\ AlertIdle /\ BatchIdle

StartupSpecNext ==
    /\ StartupNext
    /\ UNCHANGED <<baseVars, runloopVars, monthlyVars, stateFileVars, reminderVars, txnVars, alertVars, batchVars>>

StartupSpec == StartupSpecInit /\ [][StartupSpecNext]_vars

ReminderSpecInit ==
    /\ BaseIdle /\ RunLoopInit /\ MonthlyIdle /\ StateFileInit /\ StartupIdle /\ ReminderInit /\ TxnIdle /\ AlertIdle /\ BatchIdle

ReminderSpecNext ==
    /\ ReminderNext
    /\ UNCHANGED <<baseVars, runloopVars, monthlyVars, stateFileVars, startupVars, txnVars, alertVars, batchVars>>

ReminderSpec == ReminderSpecInit /\ [][ReminderSpecNext]_vars

TxnSpecInit ==
    /\ BaseIdle /\ RunLoopInit /\ MonthlyIdle /\ StateFileInit /\ StartupIdle /\ ReminderIdle /\ TxnInit /\ AlertIdle /\ BatchIdle

TxnSpecNext ==
    /\ TxnNext
    /\ UNCHANGED <<baseVars, runloopVars, monthlyVars, stateFileVars, startupVars, reminderVars, alertVars, batchVars>>

TxnSpec == TxnSpecInit /\ [][TxnSpecNext]_vars

AlertSpecInit ==
    /\ BaseIdle /\ RunLoopInit /\ MonthlyIdle /\ StateFileInit /\ StartupIdle /\ ReminderIdle /\ TxnIdle /\ AlertInit /\ BatchIdle

AlertSpecNext ==
    /\ AlertNext
    /\ UNCHANGED <<baseVars, runloopVars, monthlyVars, stateFileVars, startupVars, reminderVars, txnVars, batchVars>>

AlertSpec == AlertSpecInit /\ [][AlertSpecNext]_vars

BatchSpecInit ==
    /\ BaseIdle /\ RunLoopInit /\ MonthlyIdle /\ StateFileInit /\ StartupIdle /\ ReminderIdle /\ TxnIdle /\ AlertIdle /\ BatchInit

BatchSpecNext ==
    /\ BatchNext
    /\ UNCHANGED <<baseVars, runloopVars, monthlyVars, stateFileVars, startupVars, reminderVars, txnVars, alertVars>>

BatchSpec == BatchSpecInit /\ [][BatchSpecNext]_vars

(***************************************************************************)
(* Properties                                                              *)
(***************************************************************************)

\* C1: for every principal P >= 0 and every installment count N in 1..60,
\* create_sale generates N installments whose amounts sum to P exactly.
AmortSumExact ==
    ~IsNone(amOut) =>
        /\ Len(Val(amOut)) = amIn.N
        /\ SumSeq(Val(amOut)) = amIn.P

\* 0.10 in 3 installments: 0.03, 0.03 and the remainder on the last, 0.04
AmortSumWitness ==
    /\ amIn = [P |-> 10, N |-> 3]
    /\ amOut = Some(<<3, 3, 4>>)

\* C2 (as claimed): every external send of an entity beyond the first follows
\* a recorded failure of the one before, so two ticks racing on one eligible
\* entity make one send attempt, never two.
OneSendPerClaim ==
    \A f \in FinIds : attempts[f] <= fin[f].wpp_tries + 1

\* C3: the step of pay_installment that pays the last PENDING installment of
\* a promissory leaves the promissory PAID and its sale CONFIRMED, unless the
\* sale was CANCELED, which it then stays.
PayLastCascade ==
    [][\A p \in SaleIds : \A k \in DOMAIN insts[p] :
          ( /\ insts[p][k].status = "PENDING"
            /\ insts'[p][k].status = "PAID"
            /\ \A j \in DOMAIN insts'[p] : insts'[p][j].status = "PAID" )
          => /\ proms'[p].status = "PAID"
             /\ sales'[proms[p].sale].status =
                   IF sales[proms[p].sale].status = "CANCELED" THEN "CANCELED"
                   ELSE "CONFIRMED"]_vars

\* three installments paid 2, 3, 1: the promissory is PAID, the sale CONFIRMED
PayLastWitness ==
    \E p \in SaleIds :
        /\ Len(insts[p]) = 3
        /\ \A j \in 1..3 : insts[p][j].status = "PAID"
        /\ ret.op = "pay_installment" /\ ret.id = <<p, 1>> /\ ret.prior = "PENDING"
        /\ proms[p].status = "PAID"
        /\ sales[proms[p].sale].status = "CONFIRMED"

\* C4: pay_installment on an installment that is already PAID returns the
\* existing row and changes nothing in the store.
PayPaidIdempotent ==
    [][( /\ ret' # ret
         /\ ret'.op = "pay_installment"
         /\ ret'.prior = "PAID" )
       => /\ ret'.res = "ok"
          /\ ret'.out = Some(insts[ret'.id[1]][ret'.id[2]])
          /\ UNCHANGED <<insts, proms, sales, products>>]_vars

\* a second call, later and with another amount, found the installment PAID
\* and returned the row as the first call left it
PayPaidWitness ==
    /\ ret.op = "pay_installment" /\ ret.prior = "PAID" /\ ret.res = "ok"
    /\ ret.out = Some(insts[ret.id[1]][ret.id[2]])
    /\ Val(ret.out).paid_at = Some(1) /\ clk = 2
    /\ Val(ret.out).paid_amount = Some(MaxTotal + 1)
    /\ proms[ret.id[1]].status = "ISSUED"

\* C5: cancel_promissory on a DRAFT or ISSUED promissory fails with a conflict
\* and changes nothing when an installment is PAID; otherwise the promissory
\* becomes CANCELED and exactly its PENDING installments become CANCELED.
CancelRule ==
    [][\A p \in SaleIds :
          ( /\ ret' # ret
            /\ ret'.op = "cancel_promissory" /\ ret'.id = <<p>>
            /\ proms[p].status \in {"DRAFT", "ISSUED"} )
          => IF \E k \in DOMAIN insts[p] : insts[p][k].status = "PAID"
             THEN /\ ret'.res = "conflict"
                  /\ UNCHANGED <<proms, insts>>
             ELSE /\ ret'.res = "ok"
                  /\ proms'[p] = [proms[p] EXCEPT !.status = "CANCELED"]
                  /\ DOMAIN insts'[p] = DOMAIN insts[p]
                  /\ \A k \in DOMAIN insts[p] :
                        insts'[p][k] = IF insts[p][k].status = "PENDING"
                                       THEN [insts[p][k] EXCEPT !.status = "CANCELED"]
                                       ELSE insts[p][k]]_vars

\* a cancel refused on an ISSUED promissory with one installment PAID
CancelRefusedWitness ==
    \E p \in SaleIds :
        /\ ret.op = "cancel_promissory" /\ ret.id = <<p>> /\ ret.res = "conflict"
        /\ proms[p].status = "ISSUED"
        /\ \E k \in DOMAIN insts[p] : insts[p][k].status = "PAID"
        /\ \E k \in DOMAIN insts[p] : insts[p][k].status = "PENDING"

\* the delay the specification gives the k-th consecutive failure
TableDelay(k) ==
    CASE k = 1 -> 60
      [] k = 2 -> 5 * 60
      [] k = 3 -> 15 * 60
      [] k = 4 -> 60 * 60
      [] OTHER -> 6 * 60 * 60

\* C6 (as claimed): the k-th consecutive failure sets next_retry_at to now
\* plus 1 min, 5 min, 15 min, 60 min for k = 1..4 and 6 h from the fifth on.
FailureDelayTable ==
    ~IsNone(lastFail) =>
        Val(lastFail).next_retry_at = Val(lastFail).at + TableDelay(Val(lastFail).k)

\* C7: compute_backoff_seconds is non-decreasing in tries and never above 6 h.
BackoffMonotoneCapped ==
    (~IsNone(boOut) /\ boIn.t1 <= boIn.t2) =>
        /\ Val(boOut).d1 <= Val(boOut).d2
        /\ Val(boOut).d2 <= 6 * 60 * 60

\* tries 3 and 4: one hour, then the cap
BackoffWitness ==
    /\ boIn = [t1 |-> 3, t2 |-> 4]
    /\ boOut = Some([d1 |-> 3600, d2 |-> 21600])

\* C8 (as claimed): two ticks never both deliver a campaign message in the
\* same clock hour of the same day.
OneOfferPerHour ==
    \A a \in delivered : \A b \in delivered :
        (a.day = b.day /\ a.hour = b.hour) => a.tick = b.tick

\* C9 (as claimed): no product id is delivered by two ticks of the same day.
NoOfferRepeatSameDay ==
    \A a \in delivered : \A b \in delivered :
        (a.day = b.day /\ a.pid = b.pid) => a.tick = b.tick

\* C10: at most one weekly report is sent per week label, each on the trigger
\* weekday at or after the trigger time, and after a tick that ran then with
\* the provider accepting the message exactly one report of that week's label
\* has been sent.
WeeklyOncePerLabel ==
    /\ \A i \in DOMAIN wkSends : \A j \in DOMAIN wkSends :
          wkSends[i].label = wkSends[j].label => i = j
    /\ \A i \in DOMAIN wkSends :
          /\ Weekday(wkSends[i].day) = WeeklyReportWeekday
          /\ wkSends[i].label = <<wkSends[i].day - Weekday(wkSends[i].day),
                                  wkSends[i].day - Weekday(wkSends[i].day) + 6>>
    /\ (~IsNone(wkLast) /\ Val(wkLast).due /\ Val(wkLast).ok) =>
          Cardinality({i \in DOMAIN wkSends : wkSends[i].label = Val(wkLast).label}) = 1

\* the second week's report has gone out, and a later tick of its trigger day,
\* the provider up, found the label recorded and sent nothing
WeeklyWitness ==
    /\ Len(wkSends) = 2
    /\ wkSends[1].label # wkSends[2].label
    /\ ~IsNone(wkLast)
    /\ Val(wkLast).due /\ Val(wkLast).ok /\ Val(wkLast).skipped
    /\ Val(wkLast).label = wkSends[2].label

\* C11: a sale that is CONFIRMED stays CONFIRMED and a sale that is CANCELED
\* stays CANCELED, whatever create_sale, update_sale_status, issue_promissory,
\* cancel_promissory or pay_installment call comes next.
SaleTerminal ==
    [][\A s \in SaleIds :
          sales[s].status \in {"CONFIRMED", "CANCELED"} => sales'[s].status = sales[s].status]_vars

\* a CANCELED sale whose promissory was then paid in full is still CANCELED
SaleTerminalWitness ==
    \E s \in SaleIds :
        /\ sales[s].status = "CANCELED"
        /\ proms[s].status = "PAID"
        /\ ret.op = "pay_installment" /\ ret.res = "ok" /\ ret.prior = "PENDING"

\* C12 (as claimed): update_sale_status succeeds only for DRAFT->CONFIRMED and
\* DRAFT->CANCELED; every other request on an existing sale, a request for the
\* status the sale already has included, fails with invalid-transition and
\* leaves the sale unchanged.
UpdateOnlyDraftEdges ==
    [][\A s \in SaleIds : \A n \in SaleStatuses :
          ( /\ ret' # ret
            /\ ret'.op = "update_sale_status" /\ ret'.id = <<s, n>>
            /\ sales[s].status # "NONE" )
          => IF sales[s].status = "DRAFT" /\ n \in {"CONFIRMED", "CANCELED"}
             THEN ret'.res = "ok" /\ sales'[s] = [sales[s] EXCEPT !.status = n]
             ELSE ret'.res = "invalid_transition" /\ UNCHANGED sales]_vars

\* C12 (amended): update_sale_status changes the status only for
\* DRAFT->CONFIRMED and DRAFT->CANCELED; a request for the status the sale
\* already has succeeds and changes nothing; every other request fails with
\* invalid-transition and leaves the sale unchanged.
UpdateDraftEdgesOrSame ==
    [][\A s \in SaleIds : \A n \in SaleStatuses :
          ( /\ ret' # ret
            /\ ret'.op = "update_sale_status" /\ ret'.id = <<s, n>>
            /\ sales[s].status # "NONE" )
          => IF sales[s].status = n
             THEN ret'.res = "ok" /\ UNCHANGED sales
             ELSE IF sales[s].status = "DRAFT" /\ n \in {"CONFIRMED", "CANCELED"}
             THEN ret'.res = "ok" /\ sales'[s] = [sales[s] EXCEPT !.status = n]
             ELSE ret'.res = "invalid_transition" /\ UNCHANGED sales]_vars

\* CONFIRMED requested on a CONFIRMED sale: the call succeeds
UpdateSameWitness ==
    \E s \in SaleIds :
        /\ ret.op = "update_sale_status" /\ ret.id = <<s, "CONFIRMED">>
        /\ ret.prior = "CONFIRMED" /\ ret.res = "ok"
        /\ sales[s].status = "CONFIRMED"

\* C13 (as claimed): a promissory's status changes only along DRAFT->ISSUED,
\* DRAFT->CANCELED, ISSUED->CANCELED and ISSUED->PAID; it reaches PAID only
\* from ISSUED, and PAID and CANCELED never change.
PromissoryEdges ==
    [][\A p \in SaleIds :
          (proms[p].status # "NONE" /\ proms'[p].status # proms[p].status)
          => <<proms[p].status, proms'[p].status>> \in
                {<<"DRAFT", "ISSUED">>, <<"DRAFT", "CANCELED">>,
                 <<"ISSUED", "CANCELED">>, <<"ISSUED", "PAID">>}]_vars

\* C14: an installment's status changes only PENDING->PAID or
\* PENDING->CANCELED, after which it never changes; pay_installment on a
\* CANCELED installment, or on an installment of a CANCELED promissory, fails
\* with a conflict and changes no installment, promissory or sale.
InstallmentEdges ==
    [][\A p \in SaleIds :
          /\ \A k \in DOMAIN insts[p] :
                /\ k \in DOMAIN insts'[p]
                /\ insts'[p][k].status # insts[p][k].status
                   => /\ insts[p][k].status = "PENDING"
                      /\ insts'[p][k].status \in {"PAID", "CANCELED"}
          /\ \A k \in DOMAIN insts[p] :
                ( /\ ret' # ret
                  /\ ret'.op = "pay_installment" /\ ret'.id = <<p, k>>
                  /\ (insts[p][k].status = "CANCELED" \/ proms[p].status = "CANCELED") )
                => /\ ret'.res = "conflict"
                   /\ UNCHANGED <<insts, proms, sales, products>>]_vars

\* a payment refused on a CANCELED installment whose sibling was left as the
\* cancel found it
PayCanceledWitness ==
    \E p \in SaleIds :
        /\ ret.op = "pay_installment" /\ ret.id = <<p, 2>> /\ ret.res = "conflict"
        /\ ret.prior = "CANCELED"
        /\ proms[p].status = "CANCELED"
        /\ Len(insts[p]) = 2
        /\ \A k \in 1..2 : insts[p][k].status = "CANCELED" /\ IsNone(insts[p][k].paid_at)

\* C15: a POST /sales request with an installment count below 1 (or none, for
\* a PROMISSORY sale), a negative adjusted principal or an entry above the
\* total fails with invalid-argument; a request that fails leaves no sale,
\* promissory or installment and the product's status as it was; a request
\* that succeeds leaves the sale, the product SOLD and, for a PROMISSORY
\* sale, the promissory with all its N installments.
CreateAllOrNothing ==
    crReq.done =>
        LET entryv == IF IsNone(crReq.entry) THEN 0 ELSE Val(crReq.entry)
            bad == \/ ~IsNone(crReq.count) /\ Val(crReq.count) < 1
                   \/ crReq.ptype = "PROMISSORY" /\ IsNone(crReq.count)
                   \/ ~IsNone(crReq.promissory_total) /\ Val(crReq.promissory_total) < 0
                   \/ entryv > crReq.total
        IN  /\ ret.op = "create_sale"
            /\ ret.res \in {"ok", "invalid_argument"}
            /\ bad => ret.res = "invalid_argument"
            /\ ret.res # "ok" =>
                  /\ sales = [s \in SaleIds |-> NoSale]
                  /\ proms = [s \in SaleIds |-> NoProm]
                  /\ insts = [s \in SaleIds |-> <<>>]
                  /\ products = [p \in ProductIds |-> crReq.prod]
            /\ ret.res = "ok" =>
                  /\ sales[1] = [status |-> "DRAFT", ptype |-> crReq.ptype, product |-> 1]
                  /\ products[1] = "SOLD"
                  /\ IF crReq.ptype = "PROMISSORY"
                     THEN /\ proms[1].status = "DRAFT" /\ proms[1].sale = 1
                          /\ Len(insts[1]) = Val(crReq.count)
                          /\ \A k \in DOMAIN insts[1] : insts[1][k].status = "PENDING"
                     ELSE proms[1] = NoProm /\ insts[1] = <<>>

\* a PROMISSORY request without installment count, refused after the sale was
\* added to the session and the product marked SOLD there: nothing of it is
\* stored
CreateRollbackWitness ==
    /\ crReq.done /\ crReq.prod = "IN_STOCK" /\ crReq.refs_ok
    /\ crReq.total = 2 /\ crReq.discount = 0 /\ crReq.entry = Some(1)
    /\ crReq.ptype = "PROMISSORY" /\ IsNone(crReq.count) /\ IsNone(crReq.promissory_total)
    /\ ret.res = "invalid_argument"
    /\ sales[1] = NoSale /\ products[1] = "IN_STOCK"

\* C16 (as claimed): without an adjusted principal the promissory's principal
\* is total - discount - entry; with one, it is the adjusted principal.
PrincipalIsRemainingBalance ==
    (crReq.done /\ ret.res = "ok" /\ crReq.ptype = "PROMISSORY") =>
        LET entryv == IF IsNone(crReq.entry) THEN 0 ELSE Val(crReq.entry)
        IN  proms[1].total = IF IsNone(crReq.promissory_total)
                             THEN crReq.total - crReq.discount - entryv
                             ELSE Val(crReq.promissory_total)

\* C17 (as claimed): the base amount is principal / N rounded half-up to whole
\* cents, floor((2P + N) / (2N)); installments 1..N-1 carry the base and
\* installment N carries base + (P - base * N).
PerInstallmentHalfUp ==
    ~IsNone(amOut) =>
        LET base == (2 * amIn.P + amIn.N) \div (2 * amIn.N)
        IN  /\ Len(Val(amOut)) = amIn.N
            /\ \A k \in 1..amIn.N :
                  Val(amOut)[k] = IF k < amIn.N THEN base
                                  ELSE base + (amIn.P - base * amIn.N)

\* C18: with a single dispatcher, a Send-State that is SENT stays SENT, is not
\* selected again by any tick, and no further external send is made for it.
SentIsFinal ==
    [][\A f \in FinIds :
          fin[f].wpp_status = "SENT" =>
             /\ fin'[f] = fin[f]
             /\ attempts'[f] = attempts[f]
             /\ \A i \in DOMAIN wrows'["A"] : i >= widx'["A"] => wrows'["A"][i] # f]_vars

\* row 1 was sent at the first tick; a later tick, run after row 2's backoff,
\* selected row 2 alone
SentIsFinalWitness ==
    /\ fin[1].wpp_status = "SENT" /\ attempts[1] = 1
    /\ fin[2].wpp_status = "FAILED" /\ fin[2].wpp_tries = 1
    /\ wpc["A"] = "loop" /\ wrows["A"] = <<2>>
    /\ now >= Val(fin[2].wpp_next_retry_at)

\* C19 (as claimed): a Send-State stored as FAILED with next_retry_at = T is
\* never claimed, hence never sent, by a tick whose current time is before T.
ClaimRespectsBackoff ==
    [][\A w \in Workers :
          (wpc[w] = "loop" /\ wpc'[w] = "claimed") =>
             LET row == fin[wrows[w][widx[w]]]
             IN  (row.wpp_status = "FAILED" /\ ~IsNone(row.wpp_next_retry_at))
                 => Val(row.wpp_next_retry_at) <= now]_vars

\* C20: every external send is made after the row's SENDING claim was
\* committed: whenever a send has been started for a row, also by a worker
\* that died during or after it, the row is stored as SENDING, SENT or FAILED
\* and never as PENDING.
ClaimBeforeSend ==
    \A f \in FinIds :
        attempts[f] > 0 => fin[f].wpp_status \in {"SENDING", "SENT", "FAILED"}

\* a worker died inside its first send of row 1: the store holds the claim
ClaimBeforeSendWitness ==
    /\ attempts[1] = 1
    /\ fin[1] = [NewFinance EXCEPT !.wpp_status = "SENDING"]
    /\ wpc = [w \in Workers |-> IF w = "A" THEN "down" ELSE "idle"]

\* C21 (as claimed): a failure of any kind while one entity of a batch is
\* processed does not abort the batch: the task ends, normally or with the
\* failure, only after the last selected entity was processed.
BatchNotAborted ==
    [][( /\ wpc["A"] \in {"loop", "claimed"}
         /\ wpc'["A"] \in {"idle", "aborted"} )
       => widx["A"] = Len(wrows["A"])]_vars

\* C22 (as claimed): a send that ends without the process dying leaves the
\* claimed row SENT with sent time stamped and error and next retry cleared,
\* or FAILED with tries incremented and next_retry_at set, never SENDING,
\* and the failure does not leave the task.
OutcomeReconciled ==
    [][( /\ wpc["A"] = "claimed"
         /\ wpc'["A"] \notin {"claimed", "down"} )
       => LET f == wrows["A"][widx["A"]]
          IN  /\ wpc'["A"] # "aborted"
              /\ \/ /\ fin'[f].wpp_status = "SENT"
                    /\ fin'[f].wpp_sent_at = Some(now)
                    /\ IsNone(fin'[f].wpp_last_error)
                    /\ IsNone(fin'[f].wpp_next_retry_at)
                 \/ /\ fin'[f].wpp_status = "FAILED"
                    /\ fin'[f].wpp_tries = fin[f].wpp_tries + 1
                    /\ ~IsNone(fin'[f].wpp_next_retry_at)]_vars

\* C23: in every tick the eight tasks are attempted once each, in the order
\* sales alerts, finance, due-soon, due-today, overdue, weekly report,
\* monthly report, campaign, whichever of them raised; no exception of a
\* task ends the loop, and a tick ends only after all eight were attempted.
RunLoopIsolation ==
    [][/\ rlAlive'
       /\ rlLog' # rlLog =>
             \/ /\ rlLog' = <<>>
                /\ rlTicks' = rlTicks + 1
                /\ [i \in DOMAIN rlLog |-> rlLog[i].task] = Tasks
             \/ /\ Len(rlLog') = Len(rlLog) + 1
                /\ \A i \in DOMAIN rlLog : rlLog'[i] = rlLog[i]
                /\ rlLog'[Len(rlLog')].task = Tasks[Len(rlLog')]
       /\ rlTicks' # rlTicks => rlLog' = <<>> /\ Len(rlLog) = Len(Tasks)]_vars

\* a tick in which every task raised ran all eight, after a tick that ended
RunLoopWitness ==
    /\ rlTicks = 1
    /\ Len(rlLog) = Len(Tasks)
    /\ \A i \in DOMAIN rlLog : rlLog[i].raised /\ rlLog[i].task = Tasks[i]
    /\ rlAlive

\* C24: every monthly report is sent on the last calendar day of its month,
\* at or after the trigger time, under that month's YYYY-MM label, and no two
\* reports carry the same label however many ticks run that day.
MonthlyOncePerLabel ==
    /\ \A i \in DOMAIN mnSends :
          LET at == mnSends[i].at
          IN  /\ at.day = DaysIn(at.year, at.month)
              /\ at.hour > MonthlyReportHour
                 \/ (at.hour = MonthlyReportHour /\ at.minute >= MonthlyReportMinute)
              /\ mnSends[i].label = <<at.year, at.month>>
    /\ \A i \in DOMAIN mnSends : \A j \in DOMAIN mnSends :
          mnSends[i].label = mnSends[j].label => i = j

\* the report of February 2024 went out on the 29th at 20:00 and ticks went
\* on until the end of that day without a second one
MonthlyWitness ==
    /\ mnSends = <<[label |-> <<2024, 2>>,
                    at |-> [year |-> 2024, month |-> 2, day |-> 29, hour |-> 20, minute |-> 0]]>>
    /\ mnFile = <<<<2024, 2>>>>
    /\ mnClock = [year |-> 2024, month |-> 2, day |-> 29, hour |-> 23, minute |-> 30]

\* C25: a process kill during the write of a state file cannot make the same
\* period's report go out again: no label is sent twice.
NoResendAfterKill ==
    \A i \in DOMAIN sfSends : \A j \in DOMAIN sfSends :
        sfSends[i] = sfSends[j] => i = j

\* C26: with the messaging token absent the worker never enters the run loop
\* and no finance row is moved to FAILED with a scheduled retry.
MissingTokenIsFatal ==
    ~cfEnv.token =>
        /\ cfPc # "loop"
        /\ \A f \in FinIds :
              ~(cfRows[f].wpp_status = "FAILED" /\ cfRows[f].wpp_next_retry_at # None)

\* C27: a step of a dispatch task on channel ch changes no column of the row
\* outside that channel's Send-State block (no billing column, no column of
\* another channel) and leaves the promissory's status alone, also when the
\* API paid the row between the claim and the outcome.
DispatchFrame ==
    [][rmPc' # rmPc =>
         LET ch == IF rmPc' # None THEN Val(rmPc') ELSE Val(rmPc)
         IN  /\ \A c \in DOMAIN rmRow : c \notin ColumnsOf(ch) => rmRow'[c] = rmRow[c]
             /\ rmProm' = rmProm]_vars

\* an installment was paid while its due-today message was being sent, and
\* the outcome was then written
DispatchFrameWitness ==
    /\ rmLast = Some([op |-> "sent", ch |-> "due_today"])
    /\ rmRow["status"] = "PAID"
    /\ rmRow["wa_today_status"] = "SENT"
    /\ rmRow["wa_due_status"] = "PENDING"
    /\ rmProm = "PAID"

\* C28: every promissory a successful create_sale stores has principal
\* total >= 0 and entry amount <= principal total.
PromissoryEntryWithinPrincipal ==
    (crReq.done /\ ret.res = "ok" /\ crReq.ptype = "PROMISSORY") =>
        /\ proms[1].total >= 0
        /\ proms[1].entry <= proms[1].total

\* C29: at-least-once delivery.  A channel can become SENT only through a
\* later select of its task, so delivery requires that a channel which failed
\* on a row that is still PENDING is selected again on the day of its retry
\* time or on a later day, also when that day is not the day of the failure.
FailedChannelSelectableAgain ==
    \A ch \in ChannelsOf(rmKind) :
        LET blk == Block(rmRow, ch)
        IN  (rmPc = None /\ rmRow["status"] = "PENDING" /\ blk.wpp_status = "FAILED") =>
                \E d \in Today(rmNow)..(MaxRmDay + 1) :
                    /\ DateSelected(ch, rmRow["due_date"], d)
                    /\ Val(blk.wpp_next_retry_at) < (d + 1) * DaySeconds

\* C30: retries are bounded.  With the provider failing every time, once a
\* channel has failed MaxFailures times no further attempt is started for it.
RetriesBounded ==
    \A ch \in ChannelsOf(rmKind) :
        rmPc = Some(ch) => Block(rmRow, ch).wpp_tries < MaxFailures

\* C31: in every category, a channel that is FAILED with next_retry_at <= now
\* on a row whose billing status is PENDING is selected and passes can_try in
\* the next tick of its task.
FailedRetryEligible ==
    \A ch \in ChannelsOf(rmKind) :
        LET blk == Block(rmRow, ch)
        IN  (/\ rmPc = None
             /\ rmRow["status"] = "PENDING"
             /\ blk.wpp_status = "FAILED"
             /\ Val(blk.wpp_next_retry_at) <= rmNow) =>
                /\ ch \in {c \in ChannelsOf(rmKind) : RowSelected(c, rmRow, rmNow)}
                /\ can_try(blk.wpp_status, blk.wpp_next_retry_at, rmNow)

PayFrame ==
    [][/\ \A p \in SaleIds : \A k \in DOMAIN insts[p] :
             (insts[p][k].status = "PENDING" /\ insts'[p][k].status = "PAID") =>
                 /\ \A q \in SaleIds : \A j \in DOMAIN insts[q] :
                        <<q, j>> # <<p, k>> => insts'[q][j] = insts[q][j]
                 /\ (\E j \in DOMAIN insts'[p] : insts'[p][j].status # "PAID") =>
                        /\ proms' = proms
                        /\ sales' = sales
       /\ (ret' # ret /\ ret'.op = "pay_installment") =>
             /\ \A s \in SaleIds :
                    (sales'[s].status # sales[s].status) =>
                        /\ sales'[s].status = "CONFIRMED"
                        /\ \E p \in SaleIds :
                              /\ proms[p].sale = s
                              /\ \A j \in DOMAIN insts'[p] : insts'[p][j].status = "PAID"
                              /\ \E k \in DOMAIN insts[p] : insts[p][k].status = "PENDING"
             /\ (\A p \in SaleIds : \A k \in DOMAIN insts[p] :
                     insts'[p][k].status = insts[p][k].status) =>
                    UNCHANGED <<insts, proms, sales>>]_vars

\* the first of two installments was paid: the second is PENDING, the
\* promissory still ISSUED, the sale still DRAFT
PayFrameWitness ==
    \E p \in SaleIds :
        /\ ret.op = "pay_installment" /\ ret.id = <<p, 1>> /\ ret.res = "ok"
        /\ ret.prior = "PENDING"
        /\ Len(insts[p]) = 2
        /\ insts[p][1].status = "PAID" /\ insts[p][2].status = "PENDING"
        /\ proms[p].status = "ISSUED"
        /\ sales[proms[p].sale].status = "DRAFT"

\* C35: every installment amount create_sale generates is >= 0, for every
\* principal P >= 0 and every N in 1..60, the last installment included.
AmountsNonNegative ==
    ~IsNone(amOut) => \A k \in DOMAIN Val(amOut) : Val(amOut)[k] >= 0

\* C36: after any sequence of billing calls run one at a time, a promissory
\* is CANCELED if and only if all of its installments are CANCELED: a CANCELED
\* promissory has no PAID or PENDING installment and any other promissory has
\* no CANCELED installment.
CancelConsistency ==
    \A p \in SaleIds :
        proms[p].status # "NONE" =>
            /\ Len(insts[p]) >= 1
            /\ proms[p].status = "CANCELED" <=>
                   \A k \in DOMAIN insts[p] : insts[p][k].status = "CANCELED"
            /\ proms[p].status # "CANCELED" =>
                   \A k \in DOMAIN insts[p] : insts[p][k].status # "CANCELED"

\* an ISSUED promissory with three PENDING installments was canceled
CancelConsistencyWitness ==
    \E p \in SaleIds :
        /\ ret.op = "cancel_promissory" /\ ret.id = <<p>> /\ ret.res = "ok"
        /\ proms[p].status = "CANCELED" /\ proms[p].issued_at # None
        /\ Len(insts[p]) = 3
        /\ \A k \in 1..3 : insts[p][k].status = "CANCELED"

\* C37: once concurrent pay_installment requests have committed and every
\* installment of the promissory is PAID, the promissory is PAID and a sale
\* that is not CANCELED is CONFIRMED.
ConcurrentPaysComplete ==
    ( /\ \A t \in Txns : txReq[t].op = "pay" /\ txPc[t] = "done"
      /\ \A k \in TxInsts : txDb.inst[k] = "PAID" )
    => /\ txDb.prom = "PAID"
       /\ txDb.sale # "CANCELED" => txDb.sale = "CONFIRMED"

\* C38: no interleaving of concurrent cancel_promissory and pay_installment
\* transactions commits a CANCELED promissory with a PAID installment, or a
\* PAID promissory with a CANCELED installment.
ConcurrentCancelPaySafe ==
    /\ ~(txDb.prom = "CANCELED" /\ \E k \in TxInsts : txDb.inst[k] = "PAID")
    /\ ~(txDb.prom = "PAID" /\ \E k \in TxInsts : txDb.inst[k] = "CANCELED")

\* C39: a confirmed-sale alert is not lost: a CONFIRMED sale that has not
\* been delivered is still above the persisted max_id watermark, so that a
\* later tick selects it, whatever the order in which sales are confirmed and
\* whatever the outcome of earlier sends.
AlertsNotLost ==
    \A s \in AlertSaleIds :
        (alSales[s] = "CONFIRMED" /\ s \notin alSent) => s > alMax

\* C40: rows that the select returns and the loop skips do not starve an
\* eligible row: a run of a dispatch task that claims no row leaves no row
\* behind that its WHERE clause selects and its loop would not skip.
NoStarvationBySkippedRows ==
    (bkTicks > 0 /\ bkLast = {})
    => ~\E r \in BatchRowIds :
           BatchSelected(bkCat, bkRows[r]) /\ ~BatchSkips(bkCat, bkRows[r])

====
